---- MODULE Spec2Model ----
(***************************************************************************)
(* A model of TIFA, the type inferencer and flow analyzer of pedal         *)
(* (src/tifa/tifa.py): the type lattice (Type and its subclasses, clone,   *)
(* index, are_types_equal) over a heap of type objects, and the Tifa       *)
(* visitor's state store (scope chain, path chain, name_map), its report   *)
(* and its store_variable / load_variable / _finish_scope operations.      *)
(*                                                                         *)
(* Python values are modelled as follows.                                  *)
(*   - a type object is a heap cell; a reference is its index in `heap`,   *)
(*     and 0 is None.  Attribute assignment changes the cell, so aliasing  *)
(*     is observable.                                                      *)
(*   - a string that is built and taken apart with "/" is the sequence of  *)
(*     its "/"-separated parts (what str.split("/") returns).              *)
(*   - an exception is the field `exc` of a result, "none" when the call   *)
(*     returned.                                                           *)
(***************************************************************************)
EXTENDS Integers, Sequences, FiniteSets, TLC

\* ------------------------------------------------------------------ bounds
\* The largest number of type objects in one input type of the lattice runs.
MaxNodes == 3
\* The largest number of statements / store-load calls of one analysis run.
MaxSteps == 3
\* The largest index a type is subscripted with in the lattice runs.
MaxIndex == 1
\* The statements of a tree whose run is repeated.
MaxStmts == 2
\* The plots of the recorded graphs check_for_plot looks through.
MaxPlots == 2

\* ------------------------------------------------------- the type lattice
\* Subclasses of Type without a constructor or method of their own
\* (tifa.py 78-126, 165-216, 257-275); they inherit Type.clone.
LeafClasses ==
    {"Unknown", "Recursed", "Function", "Num", "None", "Bool", "Str", "File",
     "Module", "Time", "Day"}

\* ListType and its two subclasses, which inherit __init__, index and clone.
ListClasses == {"List", "Set", "Generator"}

\* The classes whose __init__ sets the attribute `empty`.
HasEmptyAttr(cls) == cls \in ListClasses \cup {"Dict"}

\* A type object.  `name` is FunctionType's and ModuleType's, with the default
\* of their constructors; `subtype` is ListType's, `subtypes` TupleType's; `literals`
\* is <<>> for None and <<list>> for a list of LiteralNum values; `values` and
\* `keys` are <<>> for None; `values` holds one reference (a Type) when the
\* dict has no literals and the list of the values otherwise.  `submodules`
\* and `fields` are ModuleType's dicts, empty by default.  A class that is
\* used as a value (what NumType_any returns) is a cell of class "type" with
\* the name of the class.
TypeObject(cls, empty, subtype, subtypes, literals, values, keys) ==
    [cls |-> cls, empty |-> empty, subtype |-> subtype, subtypes |-> subtypes,
     literals |-> literals, values |-> values, keys |-> keys,
     name |-> IF cls = "Function" THEN "*Anonymous"
              ELSE IF cls = "Module" THEN "*UnknownModule" ELSE "",
     submodules |-> <<>>, fields |-> <<>>]

\* A result of a call on the heap: the heap after it, the reference returned
\* and the exception raised ("none": the call returned).
Returned(h, ref) == [heap |-> h, ref |-> ref, exc |-> "none"]
Raised(h, exc) == [heap |-> h, ref |-> 0, exc |-> exc]

\* Object creation: a new cell at the end of the heap.
Alloc(h, obj) == Returned(Append(h, obj), Len(h) + 1)

\* cls(): the constructor called without arguments.  ListType() makes its own
\* UnknownType subtype and is empty; DictType() is not empty and has neither
\* literals nor keys nor values; TupleType() has no subtypes.
DefaultConstruct(h, cls) ==
    IF cls \in ListClasses
    THEN LET u == Alloc(h, TypeObject("Unknown", FALSE, 0, <<>>, <<>>, <<>>, <<>>))
         IN  Alloc(u.heap, TypeObject(cls, TRUE, u.ref, <<>>, <<>>, <<>>, <<>>))
    ELSE Alloc(h, TypeObject(cls, FALSE, 0, <<>>, <<>>, <<>>, <<>>))

\* ListType(subtype, empty) with a subtype given.
ListType(h, cls, subtype, empty) ==
    Alloc(h, TypeObject(cls, empty, subtype, <<>>, <<>>, <<>>, <<>>))

\* TupleType(subtypes).
TupleType(h, subtypes) ==
    Alloc(h, TypeObject("Tuple", FALSE, 0, subtypes, <<>>, <<>>, <<>>))

\* DictType(empty, literals, keys, values).
DictType(h, empty, literals, keys, values) ==
    Alloc(h, TypeObject("Dict", empty, 0, <<>>, literals, values, keys))

RECURSIVE clone(_, _)
RECURSIVE CloneAll(_, _, _)

\* [t.clone() for t in subtypes]: the clones are made left to right; `done`
\* holds the references made so far.
CloneAll(h, subtypes, done) ==
    IF subtypes = <<>>
    THEN [heap |-> h, refs |-> done]
    ELSE LET c == clone(h, Head(subtypes))
         IN  CloneAll(c.heap, Tail(subtypes), Append(done, c.ref))

\* t.clone().  Type.clone is self.__class__(); TupleType.clone clones every
\* subtype; ListType.clone, which SetType and GeneratorType inherit, returns
\* ListType(self.subtype.clone(), self.empty), a ListType whatever self is.
clone(h, r) ==
    LET o == h[r] IN
    IF o.cls \in ListClasses
    THEN LET s == clone(h, o.subtype)
         IN  ListType(s.heap, "List", s.ref, o.empty)
    ELSE IF o.cls = "Tuple"
    THEN LET cs == CloneAll(h, o.subtypes, <<>>)
         IN  TupleType(cs.heap, cs.refs)
    ELSE DefaultConstruct(h, o.cls)

RECURSIVE are_types_equal(_, _, _)
RECURSIVE AllEqual(_, _, _)

\* for l, r in zip(ls, rs): if not are_types_equal(l, r): return False
\* and, after the loop, True; an exception of a comparison ends the loop.
AllEqual(h, ls, rs) ==
    IF ls = <<>> \/ rs = <<>>
    THEN "True"
    ELSE LET e == are_types_equal(h, Head(ls), Head(rs))
         IN  IF e = "True" THEN AllEqual(h, Tail(ls), Tail(rs)) ELSE e

\* are_types_equal without its test for UnknownType.
are_types_equal_no_unknown(h, left, right) ==
    IF left = 0 \/ right = 0 THEN "False"
    ELSE IF h[left].cls # h[right].cls THEN "False"
    ELSE "True"

\* are_types_equal(left, right): "True", "False", or the exception it raises.
\* A TupleType has no attribute `empty`, so the tuple branch raises
\* AttributeError at its first line.  Two LiteralNum values fall through to the
\* last branch and compare True whatever their values.
are_types_equal(h, left, right) ==
    IF left = 0 \/ right = 0 THEN "False"
    ELSE IF h[left].cls = "Unknown" \/ h[right].cls = "Unknown" THEN "False"
    ELSE IF h[left].cls # h[right].cls THEN "False"
    ELSE LET l == h[left]
             r == h[right]
         IN
         IF l.cls \in ListClasses
         THEN IF l.empty \/ r.empty THEN "True"
              ELSE are_types_equal(h, l.subtype, r.subtype)
         ELSE IF l.cls = "Tuple"
         THEN IF ~HasEmptyAttr(l.cls) THEN "AttributeError"
              ELSE IF l.empty \/ r.empty THEN "True"
              ELSE IF Len(l.subtypes) # Len(r.subtypes) THEN "False"
              ELSE AllEqual(h, l.subtypes, r.subtypes)
         ELSE IF l.cls = "Dict"
         THEN IF l.empty \/ r.empty THEN "True"
              ELSE IF l.literals # <<>> /\ r.literals # <<>>
              THEN IF Len(l.literals[1]) # Len(r.literals[1]) THEN "False"
                   ELSE AllEqual(h, l.values, r.values)
              ELSE IF l.literals # <<>> \/ r.literals # <<>> THEN "False"
              ELSE LET keys_equal ==
                           are_types_equal(h, IF l.keys = <<>> THEN 0 ELSE l.keys[1],
                                              IF r.keys = <<>> THEN 0 ELSE r.keys[1])
                       values_equal ==
                           are_types_equal(h, IF l.values = <<>> THEN 0 ELSE l.values[1],
                                              IF r.values = <<>> THEN 0 ELSE r.values[1])
                   IN  IF keys_equal \notin {"True", "False"} THEN keys_equal
                       ELSE IF values_equal \notin {"True", "False"} THEN values_equal
                       ELSE IF keys_equal = "True" /\ values_equal = "True"
                            THEN "True" ELSE "False"
         ELSE "True"

RECURSIVE index(_, _, _)

\* t.index(i), i = [literal |-> whether it is a LiteralNum, value |-> its
\* number].  Type.index clones self; ListType.index clones the subtype;
\* TupleType.index clones the subtype at the position (IndexError past the
\* end); StrType.index and FileType.index make a StrType; DictType.index with
\* literals calls Tifa.are_literals_equal, which Tifa does not define, for the
\* first literal, and without literals clones self.keys.
index(h, r, i) ==
    LET o == h[r] IN
    IF o.cls \in ListClasses THEN clone(h, o.subtype)
    ELSE IF o.cls = "Tuple"
    THEN IF i.value + 1 \in 1..Len(o.subtypes)
         THEN clone(h, o.subtypes[i.value + 1])
         ELSE Raised(h, "IndexError")
    ELSE IF o.cls \in {"Str", "File"} THEN DefaultConstruct(h, "Str")
    ELSE IF o.cls = "Dict"
    THEN IF o.literals # <<>>
         THEN IF o.literals[1] = <<>> \/ o.values = <<>>
              THEN DefaultConstruct(h, "Unknown")
              ELSE Raised(h, "AttributeError")
         ELSE IF o.keys = <<>> THEN Raised(h, "AttributeError")
              ELSE clone(h, o.keys[1])
    ELSE clone(h, r)

\* The function ListType.load_attr("append") returns, called without a callee:
\* it marks the list non-empty and makes the argument itself its subtype.
\* Called without arguments it does nothing.
_append(h, self, args) ==
    IF args = <<>> THEN h
    ELSE [h EXCEPT ![self].empty = FALSE, ![self].subtype = args[1]]

\* ------------------------------------------------ inputs of the lattice runs
\* A type to build: its class, its `empty` flag, the types it holds (the
\* subtype of a list, the subtypes of a tuple, the key and the value type of a
\* dict, or the values of a dict with literal keys 1..n) and whether a dict
\* has literal keys.
TypeDesc(cls, empty, kids, lit) ==
    [cls |-> cls, empty |-> empty, kids |-> kids, lit |-> lit]

\* The classes of the types held inside a container of an input.
InnerLeafClasses == {"Unknown", "Num", "Str"}

RECURSIVE TypesOfSize(_, _)
RECURSIVE SeqsOfSize(_)

\* The sequences of inner types with n type objects in all.
SeqsOfSize(n) ==
    IF n = 0 THEN {<<>>}
    ELSE UNION {{<<t>> \o s : t \in TypesOfSize(k, InnerLeafClasses),
                              s \in SeqsOfSize(n - k)} : k \in 1..n}

\* The types with exactly n type objects whose leaves are of the given classes
\* at the top and of InnerLeafClasses below it.
TypesOfSize(n, leaves) ==
    IF n = 1
    THEN {TypeDesc(c, FALSE, <<>>, FALSE) : c \in leaves}
           \cup {TypeDesc("Tuple", FALSE, <<>>, FALSE),
                 TypeDesc("Dict", TRUE, <<>>, FALSE)}
    ELSE {TypeDesc(c, e, <<t>>, FALSE) :
              c \in ListClasses, e \in BOOLEAN,
              t \in TypesOfSize(n - 1, InnerLeafClasses)}
           \cup {TypeDesc("Tuple", FALSE, s, FALSE) : s \in SeqsOfSize(n - 1)}
           \cup {TypeDesc("Dict", FALSE, s, TRUE) : s \in SeqsOfSize(n - 1)}
           \cup {TypeDesc("Dict", FALSE, s, FALSE) :
                     s \in {q \in SeqsOfSize(n - 1) : Len(q) = 2}}

RECURSIVE Build(_, _)
RECURSIVE BuildAll(_, _, _)

\* The constructor calls that build the types of a sequence, left to right.
BuildAll(h, descs, done) ==
    IF descs = <<>>
    THEN [heap |-> h, refs |-> done]
    ELSE LET b == Build(h, Head(descs))
         IN  BuildAll(b.heap, Tail(descs), Append(done, b.ref))

\* The constructor calls that build a type.
Build(h, d) ==
    LET ks == BuildAll(h, d.kids, <<>>) IN
    IF d.cls = "NoneRef" THEN Returned(h, 0)
    ELSE IF d.cls \in ListClasses THEN ListType(ks.heap, d.cls, ks.refs[1], d.empty)
    ELSE IF d.cls = "Tuple" THEN TupleType(ks.heap, ks.refs)
    ELSE IF d.cls = "Dict"
    THEN IF d.lit
         THEN DictType(ks.heap, d.empty, <<[i \in 1..Len(ks.refs) |-> i]>>,
                       <<>>, ks.refs)
         ELSE IF ks.refs = <<>>
              THEN DictType(ks.heap, d.empty, <<>>, <<>>, <<>>)
              ELSE DictType(ks.heap, d.empty, <<>>, <<ks.refs[1]>>, <<ks.refs[2]>>)
    ELSE Alloc(ks.heap, TypeObject(d.cls, FALSE, 0, <<>>, <<>>, <<>>, <<>>))

RECURSIVE Value(_, _)

\* What a reference denotes: the type with the types it holds, by value.
Value(h, r) ==
    IF r = 0 THEN [cls |-> "NoneRef"]
    ELSE LET o == h[r] IN
         [cls |-> o.cls, empty |-> o.empty, name |-> o.name,
          subtype |-> Value(h, o.subtype),
          subtypes |-> [i \in 1..Len(o.subtypes) |-> Value(h, o.subtypes[i])],
          literals |-> o.literals,
          values |-> [i \in 1..Len(o.values) |-> Value(h, o.values[i])],
          keys |-> [i \in 1..Len(o.keys) |-> Value(h, o.keys[i])]]

RECURSIVE Reach(_, _)

\* The objects a type holds, itself included.
Reach(h, r) ==
    IF r = 0 THEN {}
    ELSE LET o == h[r]
             held == {o.subtype} \cup {o.subtypes[i] : i \in 1..Len(o.subtypes)}
                       \cup {o.values[i] : i \in 1..Len(o.values)}
                       \cup {o.keys[i] : i \in 1..Len(o.keys)}
         IN  {r} \cup UNION {Reach(h, k) : k \in held}

\* A container that is not empty: a list, set, generator or dict whose `empty`
\* is False, or a tuple with at least one subtype.
NonEmptyContainer(h, r) ==
    \/ h[r].cls \in ListClasses \cup {"Dict"} /\ ~h[r].empty
    \/ h[r].cls = "Tuple" /\ h[r].subtypes # <<>>

\* ------------------------------------------------------ Python containers
\* A dict in insertion order: a sequence of [key, value] entries.
DictHas(d, k) == \E i \in 1..Len(d) : d[i].key = k

DictGet(d, k) == d[CHOOSE i \in 1..Len(d) : d[i].key = k].value

\* d[k] = v: an existing key keeps its place, a new key goes to the end.
DictSet(d, k, v) ==
    IF DictHas(d, k)
    THEN [i \in 1..Len(d) |-> IF d[i].key = k THEN [key |-> k, value |-> v] ELSE d[i]]
    ELSE Append(d, [key |-> k, value |-> v])

\* str(i) of a small non-negative integer.
str(i) == <<"0", "1", "2", "3", "4", "5", "6", "7", "8", "9">>[i + 1]

\* "/".join(parts) seen through split("/"): joining nothing gives the empty
\* string, whose split is one empty part.
JoinSlash(parts) == IF parts = <<>> THEN <<"">> ELSE parts

\* seq[:n] and seq[:-1].
Prefix(seq, n) == SubSeq(seq, 1, n)
ButLast(seq) == SubSeq(seq, 1, Len(seq) - 1)

\* seq[::-1].
Reversed(seq) == [i \in 1..Len(seq) |-> seq[Len(seq) + 1 - i]]

\* s == i for a str s and an int i: a str never equals an int.
StrEqInt(s, i) == FALSE

\* strs == ints, a list of str against a list of int.
StrListEqIntList(strs, ints) ==
    /\ Len(strs) = Len(ints)
    /\ \A i \in 1..Len(strs) : StrEqInt(strs[i], ints[i])

\* ------------------------------------------------------------ State, report
\* State(name, trace, type, method, position, read, set, over, over_position);
\* over_position is <<>> for None and <<position>> otherwise.
State(name, trace, type, method, position, read, set, over, over_position) ==
    [name |-> name, trace |-> trace, type |-> type, method |-> method,
     position |-> position, read |-> read, set |-> set, over |-> over,
     over_position |-> over_position]

\* The "" that Identifier has for a state when the variable does not exist, and
\* the value of a call that returned nothing.
NoState == State("", <<>>, 0, "", <<>>, "", "", "", <<>>)

\* Identifier(exists, in_scope=False, scoped_name="UNKNOWN", state="").
Identifier(exists, in_scope, scoped_name, state) ==
    [exists |-> exists, in_scope |-> in_scope, scoped_name |-> scoped_name,
     state |-> state]

\* The names of the attributes State.copy reads from `state`, which is neither
\* a parameter nor a global: the call raises NameError before a State is made.
State_copy(self, method, position) == [exc |-> "NameError", state |-> NoState]

\* The keys of the issues mapping of a successful report, in its order.
IssueKindSeq ==
    <<"Parser Failure", "Unconnected blocks", "Empty Body",
      "Malformed Conditional", "Unnecessary Pass", "Unread variables",
      "Undefined variables", "Possibly undefined variables",
      "Overwritten variables", "Append to non-list", "Used iteration list",
      "Unused iteration variable", "Non-list iterations", "Empty iterations",
      "Type changes", "Iteration variable is iteration list",
      "Unknown functions", "Not a function", "Recursive Call",
      "Incorrect Arity", "Action after return", "Incompatible types",
      "Return outside function", "Read out of scope", "Write out of scope",
      "Aliased built-in", "Method not in Type", "Submodule not found",
      "Module not found">>

IssueKinds == {IssueKindSeq[i] : i \in 1..Len(IssueKindSeq)}

\* Tifa._initialize_report(): the keys "success", "variables" and "issues";
\* process_ast fills `variables` in (with name_map) and adds
\* "top_level_variables".
_initialize_report ==
    [success |-> TRUE, variables |-> <<>>,
     issues |-> [k \in IssueKinds |-> <<>>]]

\* A report that is returned although the run failed: the report of the run
\* with the error added.
_error_report_partial(error) ==
    [success |-> FALSE, error |-> error, variables |-> <<>>,
     issues |-> [k \in IssueKinds |-> <<>>]]

\* Tifa._error_report(error): the keys "success", "error", "issues" and
\* "variables", the last two empty dicts.
_error_report(error) ==
    [success |-> FALSE, error |-> error, variables |-> <<>>,
     issues |-> [k \in {} |-> <<>>]]

\* --------------------------------------------------------------- the analyzer
\* The analyzer during a call: the heap, the fields of the Tifa object, the
\* exception raised so far ("none": none) and the value the call returns.
Raise(t, exc) == [t EXCEPT !.exc = exc]

\* self.locate(): the position of the node on top of the node chain.
locate(t) ==
    IF t.node_chain = <<>>
    THEN [exc |-> "IndexError", position |-> <<>>]
    ELSE LET node == t.node_chain[Len(t.node_chain)]
         IN  [exc |-> "none",
              position |-> [column |-> node.col_offset, line |-> node.lineno]]

\* report_issue putting the record in front of the others of its kind.
report_issue_prepend(t, issue, data) ==
    LET here == locate(t)
        full == IF "position" \in DOMAIN data THEN data
                ELSE data @@ [position |-> here.position]
    IN  IF "position" \notin DOMAIN data /\ here.exc # "none"
        THEN Raise(t, here.exc)
        ELSE [t EXCEPT !.report.issues[issue] = <<full>> \o @]

\* self.report_issue(issue, data): the position is added when data has none,
\* and the record is appended to the issue's list.
report_issue(t, issue, data) ==
    LET here == locate(t)
        full == IF "position" \in DOMAIN data THEN data
                ELSE data @@ [position |-> here.position]
    IN  IF "position" \notin DOMAIN data /\ here.exc # "none"
        THEN Raise(t, here.exc)
        ELSE IF issue \notin DOMAIN t.report.issues
        THEN Raise(t, "KeyError")
        ELSE [t EXCEPT !.report.issues[issue] = Append(@, full)]

\* A reset that leaves the name map of the run before.
_reset_keep(t) ==
    [t EXCEPT !.scope_chain = <<0>>, !.path_chain = <<0>>,
              !.name_map = IF 0 \in DOMAIN @ THEN @ ELSE [p \in {0} |-> <<>>],
              !.node_chain = <<>>]

\* self._reset(): the fields the analysis keeps.
_reset(t) ==
    [t EXCEPT !.scope_chain = <<0>>, !.path_chain = <<0>>,
              !.name_map = [p \in {0} |-> <<>>], !.node_chain = <<>>]

\* self._scope_chain_str(name), with a name.
_scope_chain_str(t, name) ==
    JoinSlash([i \in 1..Len(t.scope_chain) |-> str(t.scope_chain[i])]) \o <<name>>

\* The name find_variable_scope looks up for the scope at scope_index (from 0):
\* the chain before that scope, joined, then "/" and the name.
FindFullName(t, scope_index, name) ==
    JoinSlash([i \in 1..scope_index |-> str(t.scope_chain[i])]) \o <<name>>

\* self.find_variable_scope(name): the first hit of the loop over the scopes
\* of the chain (outer loop) and the open paths (inner loop).
find_variable_scope(t, name) ==
    LET hits == {sp \in (0..(Len(t.scope_chain) - 1)) \X (1..Len(t.path_chain)) :
                     DictHas(t.name_map[t.path_chain[sp[2]]],
                             FindFullName(t, sp[1], name))}
    IN  IF hits = {}
        THEN Identifier(FALSE, FALSE, <<"UNKNOWN">>, NoState)
        ELSE LET first == CHOOSE sp \in hits : \A o \in hits :
                              \/ sp[1] < o[1]
                              \/ sp[1] = o[1] /\ sp[2] <= o[2]
                 full_name == FindFullName(t, first[1], name)
                 is_root_scope == (first[1] = 0)
             IN  Identifier(TRUE, is_root_scope, full_name,
                            DictGet(t.name_map[t.path_chain[first[2]]], full_name))

\* self.find_variable_out_of_scope(name): any recorded variable, of any path
\* and scope, whose last part is the name.
find_variable_out_of_scope(t, name) ==
    LET hits == {pi \in DOMAIN t.name_map :
                     \E i \in 1..Len(t.name_map[pi]) :
                         LET full_name == t.name_map[pi][i].key
                         IN  full_name[Len(full_name)] = name}
    IN  IF hits = {}
        THEN Identifier(FALSE, FALSE, <<"UNKNOWN">>, NoState)
        ELSE LET pi == CHOOSE q \in hits : \A o \in hits : q <= o
                 d == t.name_map[pi]
                 i == CHOOSE j \in 1..Len(d) :
                          /\ d[j].key[Len(d[j].key)] = name
                          /\ \A m \in 1..(j - 1) : d[m].key[Len(d[m].key)] # name
             IN  Identifier(TRUE, FALSE, <<name>>, d[i].value)

\* Tifa.in_scope(full_name, scope_chain): the scopes of the name, which are
\* strings, compared with the reversed chain, which holds integers.
in_scope(full_name, scope_chain) ==
    StrListEqIntList(ButLast(full_name), Reversed(scope_chain))

\* self.trace_state(state, method).
trace_state(t, state, method) ==
    LET here == locate(t) IN
    IF here.exc # "none" THEN [exc |-> here.exc, state |-> NoState]
    ELSE State_copy(state, method, here.position)

\* name_map[current_path][full_name] = new_state, and new_state is what the
\* call returns.
RecordState(t, full_name, new_state) ==
    [t EXCEPT !.name_map[t.path_chain[1]] = DictSet(@, full_name, new_state),
              !.ret = new_state]

\* store_variable, the variable not found: a new State at the position of the
\* current node, not read, set, not overwritten.
StoreNew(t, name, type, here) ==
    IF here.exc # "none" THEN Raise(t, here.exc)
    ELSE RecordState(t, _scope_chain_str(t, name),
                     State(name, <<>>, type, "store", here.position,
                           "no", "yes", "no", <<>>))

\* store_variable, the variable found: "Type changes" when the new type is not
\* equal to the old one; eq is what are_types_equal gave.
StoreTypeChange(t1, name, type, variable, eq) ==
    IF t1.exc # "none" THEN t1
    ELSE IF eq \notin {"True", "False"} THEN Raise(t1, eq)
    ELSE IF eq = "False"
    THEN report_issue(t1, "Type changes",
                      [name |-> name, old |-> variable.state.type, new |-> type])
    ELSE t1

\* store_variable, the variable found: the overwrite test.  Its first branch
\* reads `position`, which is neither a local nor a global: NameError.
StoreOverwrite(t2, name, variable, new_state) ==
    IF t2.exc # "none" THEN t2
    ELSE IF variable.state.set = "yes" /\ variable.state.read = "no"
    THEN Raise(t2, "NameError")
    ELSE RecordState(t2, _scope_chain_str(t2, name),
                     [new_state EXCEPT !.set = "yes", !.read = "no"])

\* store_variable, the variable found; traced is what trace_state gave.
StoreExisting(t, name, type, variable, traced) ==
    IF traced.exc # "none" THEN Raise(t, traced.exc)
    ELSE StoreOverwrite(
             StoreTypeChange(
                 IF ~variable.in_scope
                 THEN report_issue(t, "Write out of scope", [name |-> name])
                 ELSE t,
                 name, type, variable,
                 are_types_equal(t.heap, type, variable.state.type)),
             name, variable, [traced.state EXCEPT !.type = type])

\* store_variable after find_variable_scope.
StoreFound(t, name, type, variable) ==
    IF ~variable.exists
    THEN StoreNew(t, name, type, locate(t))
    ELSE StoreExisting(t, name, type, variable,
                       trace_state(t, variable.state, "store"))

\* self.store_variable(name, type); the State it returns is in `ret`.
store_variable(t, name, type) ==
    StoreFound(t, name, type, find_variable_scope(t, name))

\* load_variable, the variable not found, after the issue: a new State of a
\* new UnknownType, read and not set.
LoadNew(t1, name, unknown, here, read) ==
    IF t1.exc # "none" THEN t1
    ELSE IF here.exc # "none" THEN Raise(t1, here.exc)
    ELSE RecordState([t1 EXCEPT !.heap = unknown.heap],
                     _scope_chain_str(t1, name),
                     State(name, <<>>, unknown.ref, "load", here.position,
                           read, "no", "no", <<>>))

\* load_variable for a missing name, recording the new State as not read.
LoadMissing_unread(t, name, out_of_scope_var) ==
    LoadNew(IF out_of_scope_var.exists
            THEN report_issue(t, "Read out of scope", [name |-> name])
            ELSE report_issue(t, "Undefined variables", [name |-> name]),
            name, DefaultConstruct(t.heap, "Unknown"), locate(t), "no")

\* load_variable, the variable not found: the issue tells whether some other
\* scope or path has the name.
LoadMissing(t, name, out_of_scope_var) ==
    LoadNew(IF out_of_scope_var.exists
            THEN report_issue(t, "Read out of scope", [name |-> name])
            ELSE report_issue(t, "Undefined variables", [name |-> name]),
            name, DefaultConstruct(t.heap, "Unknown"), locate(t), "yes")

\* load_variable, the variable found, after the issues: the State is recorded
\* under the name it was found with; in the current scope the code reads
\* `newState`, which is neither a local nor a global: NameError.
LoadRecord(t2, variable, new_state) ==
    IF t2.exc # "none" THEN t2
    ELSE IF ~variable.in_scope
    THEN RecordState(t2, variable.scoped_name, new_state)
    ELSE Raise(t2, "NameError")

\* load_variable, the variable found: "Possibly undefined variables".
LoadMaybe(t1, name, variable) ==
    IF t1.exc = "none" /\ variable.state.set = "maybe"
    THEN report_issue(t1, "Possibly undefined variables", [name |-> name])
    ELSE t1

\* load_variable, the variable found; traced is what trace_state gave.
LoadExisting(t, name, variable, traced) ==
    IF traced.exc # "none" THEN Raise(t, traced.exc)
    ELSE LoadRecord(
             LoadMaybe(IF variable.state.set = "no"
                       THEN report_issue(t, "Undefined variables", [name |-> name])
                       ELSE t,
                       name, variable),
             variable, [traced.state EXCEPT !.read = "yes"])

\* load_variable after find_variable_scope.
LoadFound(t, name, variable) ==
    IF ~variable.exists
    THEN LoadMissing(t, name, find_variable_out_of_scope(t, name))
    ELSE LoadExisting(t, name, variable, trace_state(t, variable.state, "load"))

\* self.load_variable(name); the State it returns is in `ret`.
load_variable(t, name) == LoadFound(t, name, find_variable_scope(t, name))

RECURSIVE FinishFrom(_, _, _)

\* _finish_scope, one variable of the scope: "Overwritten variables" at the
\* position of the first write.
FinishOver(t, state) ==
    IF state.over = "yes"
    THEN report_issue(t, "Overwritten variables",
                      [name |-> state.name, position |-> state.over_position])
    ELSE t

\* _finish_scope, one variable of the scope: "Unread variables".
FinishUnread(t1, state) ==
    IF t1.exc = "none" /\ state.read = "no"
    THEN report_issue(t1, "Unread variables",
                      [name |-> state.name, type |-> state.type])
    ELSE t1

\* The loop of _finish_scope over the variables of the main path, from the
\* i-th on, in the order of the dict.
FinishFrom(t, d, i) ==
    IF i > Len(d) \/ t.exc # "none" THEN t
    ELSE IF ~in_scope(d[i].key, t.scope_chain) THEN FinishFrom(t, d, i + 1)
    ELSE FinishFrom(FinishUnread(FinishOver(t, d[i].value), d[i].value), d, i + 1)

\* self._finish_scope().
_finish_scope(t) == FinishFrom(t, t.name_map[t.path_chain[1]], 1)

\* Whether the loop of _collect_top_level_varaibles finds a name of two parts
\* whose first part, a string, equals the first scope id, an integer.
HasTopLevel(t, main_path_vars) ==
    \E i \in 1..Len(main_path_vars) :
        /\ Len(main_path_vars[i].key) = 2
        /\ StrEqInt(main_path_vars[i].key[1], t.scope_chain[1])

\* self._collect_top_level_varaibles(): the body of the test reads
\* `fullName`, which is neither a local nor a global: NameError.
_collect_top_level_varaibles(t) ==
    IF t.exc # "none" THEN t
    ELSE IF HasTopLevel(t, t.name_map[t.path_chain[1]])
    THEN Raise([t EXCEPT !.report = [top_level_variables |-> <<>>] @@ @],
               "NameError")
    ELSE [t EXCEPT !.report = [top_level_variables |-> <<>>] @@ @]

\* ----------------------------------------------------------------- the tree
\* A node of the tree: its class, its position, the id and the context of a
\* Name, and the nodes it holds in the order of its fields (an Assign holds
\* its target and then its value).
Node(kind, lineno, col_offset, id, ctx, kids) ==
    [kind |-> kind, lineno |-> lineno, col_offset |-> col_offset, id |-> id,
     ctx |-> ctx, kids |-> kids]

\* The keys of BUILTINS, in its order ("list" is given twice and "set" never).
BUILTINS ==
    <<"print", "int", "abs", "float", "len", "ord", "pow", "round", "sum",
      "bool", "all", "any", "isinstance", "input", "str", "chr", "repr",
      "open", "map", "list", "dict", "sorted", "reversed", "filter", "range",
      "dir", "max", "min", "zip">>

\* The FunctionType objects BUILTINS holds: the first cells of the heap of an
\* analysis, the i-th for the i-th key.
BuiltinObjects ==
    [i \in 1..Len(BUILTINS) |->
        [TypeObject("Function", FALSE, 0, <<>>, <<>>, <<>>, <<>>)
            EXCEPT !.name = BUILTINS[i]]]

\* BUILTINS.get(name): the object, or None.  A key given twice has the value
\* given last.
BUILTINS_get(name) ==
    IF \E i \in 1..Len(BUILTINS) : BUILTINS[i] = name
    THEN CHOOSE i \in 1..Len(BUILTINS) :
             /\ BUILTINS[i] = name
             /\ \A j \in (i + 1)..Len(BUILTINS) : BUILTINS[j] # name
    ELSE 0

\* The class the definition of a builtin constructs, for the builtins whose
\* definition is _builtin_sequence_constructor(cls): the first "list" is
\* given ListType and the second SetType; "" for the other builtins.
SequenceConstructor(ref) ==
    IF BUILTINS[ref] # "list" THEN ""
    ELSE IF \A j \in 1..(ref - 1) : BUILTINS[j] # "list" THEN "List"
    ELSE "Set"

\* sequence_call with the subtype of the new container set to what the index
\* of the first argument gave.
SequenceCallSet(made, indexed) ==
    IF indexed.exc # "none" THEN indexed
    ELSE Returned([indexed.heap EXCEPT ![made.ref].subtype = indexed.ref], made.ref)

\* sequence_call after constructor(empty=True).
SequenceCallMade(made, args) ==
    IF args = <<>> THEN made
    ELSE SequenceCallSet(made, index(made.heap, args[1], [literal |-> TRUE, value |-> 0]))

\* _builtin_sequence_constructor(constructor).sequence_call(..., args, ...).
sequence_call(h, constructor, args) ==
    SequenceCallMade(DefaultConstruct(h, constructor), args)

\* BUILTINS[name].definition(tifa, function_type, callee, args, position) for
\* a name whose definition is a sequence constructor; KeyError for a name
\* BUILTINS does not have.
CallBuiltinDefinition(h, name, args) ==
    IF BUILTINS_get(name) = 0 THEN Raised(h, "KeyError")
    ELSE sequence_call(h, SequenceConstructor(BUILTINS_get(name)), args)

\* FunctionType(name=name), whatever `returns` or `definition` is given: the
\* object keeps its name (and a definition, which nothing here calls).
FunctionType(h, name) ==
    Alloc(h, [TypeObject("Function", FALSE, 0, <<>>, <<>>, <<>>, <<>>)
                  EXCEPT !.name = name])

\* ModuleType(name, submodules, fields).
ModuleType(h, name, submodules, fields) ==
    Alloc(h, [TypeObject("Module", FALSE, 0, <<>>, <<>>, <<>>, <<>>)
                  EXCEPT !.name = name, !.submodules = submodules,
                         !.fields = fields])

\* The literal MODULES is made of: for every module its name, its submodules
\* and its fields, each field with the class of its value (a FunctionType
\* has the name of its key).  "acos" is given twice in math.
ModuleData ==
    <<[name |-> "matplotlib",
       submodules |-> <<[name |-> "pyplot",
               submodules |-> <<>>,
               fields |->
                   <<<<"plot", "Function">>, <<"hist", "Function">>,
                      <<"scatter", "Function">>, <<"show", "Function">>,
                      <<"xlabel", "Function">>, <<"ylabel", "Function">>,
                      <<"title", "Function">>>>]>>,
       fields |->
           <<>>],
      [name |-> "pprint",
       submodules |-> <<>>,
       fields |->
           <<<<"pprint", "Function">>>>],
      [name |-> "random",
       submodules |-> <<>>,
       fields |->
           <<<<"randint", "Function">>>>],
      [name |-> "turtle",
       submodules |-> <<>>,
       fields |->
           <<<<"forward", "Function">>, <<"backward", "Function">>,
              <<"color", "Function">>, <<"right", "Function">>,
              <<"left", "Function">>>>],
      [name |-> "parking",
       submodules |-> <<>>,
       fields |->
           <<<<"Time", "Function">>, <<"now", "Function">>,
              <<"Day", "Function">>, <<"today", "Function">>>>],
      [name |-> "math",
       submodules |-> <<>>,
       fields |->
           <<<<"ceil", "Function">>, <<"copysign", "Function">>,
              <<"fabs", "Function">>, <<"factorial", "Function">>,
              <<"floor", "Function">>, <<"fmod", "Function">>,
              <<"frexp", "Function">>, <<"fsum", "Function">>,
              <<"gcd", "Function">>, <<"isclose", "Function">>,
              <<"isfinite", "Function">>, <<"isinf", "Function">>,
              <<"isnan", "Function">>, <<"ldexp", "Function">>,
              <<"modf", "Function">>, <<"trunc", "Function">>,
              <<"log", "Function">>, <<"log1p", "Function">>,
              <<"log2", "Function">>, <<"log10", "Function">>,
              <<"pow", "Function">>, <<"sqrt", "Function">>,
              <<"acos", "Function">>, <<"sin", "Function">>,
              <<"cos", "Function">>, <<"tan", "Function">>,
              <<"asin", "Function">>, <<"acos", "Function">>,
              <<"atan", "Function">>, <<"atan2", "Function">>,
              <<"hypot", "Function">>, <<"degrees", "Function">>,
              <<"radians", "Function">>, <<"sinh", "Function">>,
              <<"cosh", "Function">>, <<"tanh", "Function">>,
              <<"asinh", "Function">>, <<"acosh", "Function">>,
              <<"atanh", "Function">>, <<"erf", "Function">>,
              <<"erfc", "Function">>, <<"gamma", "Function">>,
              <<"lgamma", "Function">>, <<"pi", "Num">>, <<"e", "Num">>,
              <<"tau", "Num">>, <<"inf", "Num">>, <<"nan", "Num">>>>]>>

\* The value of a field of a module: FunctionType(name=key, ...) or cls(), cls
\* a class without a constructor of its own.
FieldObject(entry) ==
    IF entry[2] = "Function"
    THEN [TypeObject("Function", FALSE, 0, <<>>, <<>>, <<>>, <<>>)
              EXCEPT !.name = entry[1]]
    ELSE TypeObject(entry[2], FALSE, 0, <<>>, <<>>, <<>>, <<>>)

\* The entry of a dict display that gives the value its key has in the end
\* (the last with the key), and whether an entry is the first with its key
\* (where the dict keeps it).
LastWithKey(entries, i) ==
    CHOOSE j \in i..Len(entries) :
        /\ entries[j][1] = entries[i][1]
        /\ \A k \in (j + 1)..Len(entries) : entries[k][1] # entries[i][1]
FirstWithKey(entries, i) == \A j \in 1..(i - 1) : entries[j][1] # entries[i][1]

\* The keys of a dict display in the order the dict keeps them.
KeptEntries(entries) ==
    SelectSeq([i \in 1..Len(entries) |-> i],
              LAMBDA i : FirstWithKey(entries, i))

\* A dict display of fields: the values are made in the order of the display,
\* one object each, and a key given again replaces the value it had.
MakeFields(h, entries) ==
    [heap |-> h \o [i \in 1..Len(entries) |-> FieldObject(entries[i])],
     dict |-> [n \in 1..Len(KeptEntries(entries)) |->
                  [key |-> entries[KeptEntries(entries)[n]][1],
                   value |-> Len(h) + LastWithKey(entries, KeptEntries(entries)[n])]]]

RECURSIVE MakeModules(_, _, _)

\* ModuleType(name, submodules={...}, fields={...}) once its dicts are made.
MakeModule(name, subs, fields) ==
    ModuleType(fields.heap, name, subs.dict, fields.dict)

\* The module of the first description, made after its submodules and its
\* fields, and the other modules after it.
MakeModulesNext(made, data, done) ==
    MakeModules(made.heap, Tail(data), DictSet(done, Head(data).name, made.ref))

\* A dict display of modules.
MakeModules(h, data, done) ==
    IF data = <<>> THEN [heap |-> h, dict |-> done]
    ELSE MakeModulesNext(
             MakeModule(Head(data).name,
                        MakeModules(h, Head(data).submodules, <<>>),
                        MakeFields(MakeModules(h, Head(data).submodules, <<>>).heap,
                                   Head(data).fields)),
             data, done)

\* The objects of BUILTINS and MODULES: what the heap holds when the module
\* tifa has been imported.
Registry == MakeModules(BuiltinObjects, ModuleData, <<>>).heap

\* MODULES: the dict of the top level modules.
MODULES == MakeModules(BuiltinObjects, ModuleData, <<>>).dict

\* A call that returns the object just made.
SetVal(t, made) == [t EXCEPT !.heap = made.heap, !.val = made.ref]

RECURSIVE visit(_, _)
RECURSIVE VisitAll(_, _)
RECURSIVE AssignAction(_, _, _)
RECURSIVE AssignElts(_, _, _, _)

\* self.visit(n) for every node of a list, in order; the results are dropped.
VisitAll(t, nodes) ==
    IF nodes = <<>> \/ t.exc # "none" THEN [t EXCEPT !.val = 0]
    ELSE VisitAll(visit(t, Head(nodes)), Tail(nodes))

\* NodeVisitor.generic_visit(node), for a node without a visit_ method: the
\* nodes it holds are visited and None is returned.
generic_visit(t, node) == VisitAll(t, node.kids)

\* visit_Name: state = self.load_variable(name); return state.type.
LoadedType(l) == IF l.exc # "none" THEN l ELSE [l EXCEPT !.val = l.ret.type]

\* visit_Name for a name that is stored to: the type of the variable, or a
\* new UnknownType.
NameStoreType(t1, variable) ==
    IF variable.exists
    THEN [t1 EXCEPT !.val = variable.state.type]
    ELSE SetVal(t1, DefaultConstruct(t1.heap, "Unknown"))

\* visit_Name after the test for "___".
VisitNameWith(t1, node) ==
    IF t1.exc # "none" THEN t1
    ELSE IF node.ctx = "Load"
    THEN IF node.id \in {"True", "False"}
         THEN SetVal(t1, DefaultConstruct(t1.heap, "Bool"))
         ELSE IF node.id = "None"
         THEN SetVal(t1, DefaultConstruct(t1.heap, "None"))
         ELSE IF ~find_variable_scope(t1, node.id).exists
                 /\ BUILTINS_get(node.id) # 0
         THEN [t1 EXCEPT !.val = BUILTINS_get(node.id)]
         ELSE LoadedType(load_variable(t1, node.id))
    ELSE NameStoreType(t1, find_variable_scope(t1, node.id))

\* self.visit_Name(node); the Type it returns is in `val`.
visit_Name(t, node) ==
    VisitNameWith(IF node.id = "___"
                  THEN report_issue(t, "Unconnected blocks", <<>>)
                  ELSE t,
                  node)

\* `action` of visit_Assign for one element of a tuple or list target, whose
\* type is type.index(LiteralNum(i)), and then for the elements after it.
AssignElt(t, elts, type, i, eltType) ==
    IF eltType.exc # "none" THEN Raise(t, eltType.exc)
    ELSE AssignElts(AssignAction([t EXCEPT !.heap = eltType.heap],
                                 elts[i + 1], eltType.ref),
                    elts, type, i + 1)

\* The loop of `action` over the elements of a tuple or list target, from the
\* i-th (from 0) on.
AssignElts(t, elts, type, i) ==
    IF i >= Len(elts) \/ t.exc # "none" THEN t
    ELSE AssignElt(t, elts, type, i,
                   index(t.heap, type, [literal |-> TRUE, value |-> i]))

\* The function `action` of visit_Assign: a Name target is stored, a tuple or
\* list target is unpacked, a Subscript target is passed over.
AssignAction(t, target, type) ==
    IF target.kind = "Name" THEN store_variable(t, target.id, type)
    ELSE IF target.kind \in {"Tuple", "List"} THEN AssignElts(t, target.kids, type, 0)
    ELSE t

\* visit_Assign after the visit of the target: the walk of the targets; the
\* visitor returns None.
AssignStore(t2, target, value_type) ==
    IF t2.exc # "none" THEN t2
    ELSE [AssignAction(t2, target, value_type) EXCEPT !.val = 0]

\* visit_Assign after the visit of the value, whose type is in `val`.
AssignTargets(t1, target) ==
    AssignStore(VisitAll(t1, <<target>>), target, t1.val)

\* self.visit_Assign(node) with one target: the value is visited, then the
\* target, then the target is given the type of the value.
visit_Assign(t, node) == AssignTargets(visit(t, node.kids[2]), node.kids[1])

\* ------------------------------------------------------------ the operators
\* merge_types(left, right): for a list, set or generator the subtype of the
\* right operand itself when left is empty and else a clone of left's
\* subtype; for two tuples the Python list left.subtypes + right.subtypes,
\* which is no Type (a cell of class "list"); for anything else None.
merge_types(h, left, right) ==
    IF h[left].cls \in ListClasses
    THEN IF h[left].empty THEN Returned(h, h[right].subtype)
         ELSE clone(h, h[left].subtype)
    ELSE IF h[left].cls = "Tuple"
    THEN Alloc(h, TypeObject("list", FALSE, 0,
                             h[left].subtypes \o h[right].subtypes,
                             <<>>, <<>>, <<>>))
    ELSE Returned(h, 0)

\* NumType_any = lambda *x: NumType, and StrType_any and BoolType_any alike:
\* the class itself is returned, not an instance of it.
Class_any(h, name) ==
    Alloc(h, [TypeObject("type", FALSE, 0, <<>>, <<>>, <<>>, <<>>)
                  EXCEPT !.name = name])

\* The rows of VALID_BINOP_TYPES for the operators whose only entry is
\* NumType: {NumType: NumType_any}.
NumOnlyOps == {"Div", "FloorDiv", "Pow", "Mod", "LShift", "RShift"}

\* VALID_BINOP_TYPES[op][type(left)][type(right)]: the rule, or "" when one
\* of the three lookups misses.  The keys are classes, compared with the
\* exact class of the operand.
VALID_BINOP_TYPES(op, lcls, rcls) ==
    CASE op = "Add" ->
             (CASE lcls = "Num" /\ rcls = "Num" -> "NumType_any"
                [] lcls = "Str" /\ rcls = "Str" -> "StrType_any"
                [] lcls = "List" /\ rcls = "List" -> "merge_types"
                [] lcls = "Tuple" /\ rcls = "Tuple" -> "merge_types"
                [] OTHER -> "")
      [] op = "Sub" ->
             (CASE lcls = "Num" /\ rcls = "Num" -> "NumType_any"
                [] lcls = "Set" /\ rcls = "Set" -> "merge_types"
                [] OTHER -> "")
      [] op \in NumOnlyOps ->
             (IF lcls = "Num" /\ rcls = "Num" THEN "NumType_any" ELSE "")
      [] op = "Mult" ->
             (CASE lcls = "Num" /\ rcls = "Num" -> "NumType_any"
                [] lcls = "Num" /\ rcls = "Str" -> "StrType_any"
                [] lcls = "Num" /\ rcls \in {"List", "Tuple"} -> "right"
                [] lcls = "Str" /\ rcls = "Num" -> "StrType_any"
                [] lcls \in {"List", "Tuple"} /\ rcls = "Num" -> "left"
                [] OTHER -> "")
      [] op \in {"BitOr", "BitXor", "BitAnd"} ->
             (CASE lcls = "Num" /\ rcls = "Num" -> "NumType_any"
                [] lcls = "Bool" /\ rcls = "Num" -> "NumType_any"
                [] lcls = "Bool" /\ rcls = "Bool" -> "BoolType_any"
                [] lcls = "Set" /\ rcls = "Set" -> "merge_types"
                [] OTHER -> "")
      [] OTHER -> ""

\* op_lookup(left, right) for the rule the table gave.
ApplyRule(h, rule, left, right) ==
    CASE rule = "NumType_any" -> Class_any(h, "Num")
      [] rule = "StrType_any" -> Class_any(h, "Str")
      [] rule = "BoolType_any" -> Class_any(h, "Bool")
      [] rule = "merge_types" -> merge_types(h, left, right)
      [] rule = "left" -> Returned(h, left)
      [] rule = "right" -> Returned(h, right)

\* node.op.name: the operator classes of ast (Add, BitOr, ...) have no
\* attribute `name`, so reading it raises AttributeError.
OpName(op) == [exc |-> "AttributeError", name |-> ""]

\* The end of visit_BinOp after a table miss: the "Incompatible types" issue,
\* whose data reads node.op.name first, and a new UnknownType.
IncompatibleTypes(t, left, right, operation) ==
    IF operation.exc # "none" THEN Raise(t, operation.exc)
    ELSE [report_issue(t, "Incompatible types",
                       [left |-> left, right |-> right,
                        operation |-> operation.name])
             EXCEPT !.val = 0]

\* A visitor that returns a new UnknownType after a call that returned.
ThenUnknown(t1) ==
    IF t1.exc # "none" THEN t1
    ELSE SetVal(t1, DefaultConstruct(t1.heap, "Unknown"))

\* visit_BinOp after the visits of its operands, whose types are left and
\* right: Unknown when one of them is Unknown, the value of the rule when
\* the table has one, and "Incompatible types" with Unknown otherwise.
BinOpResult(t, op, left, right) ==
    IF t.exc # "none" THEN t
    ELSE IF t.heap[left].cls = "Unknown" \/ t.heap[right].cls = "Unknown"
    THEN SetVal(t, DefaultConstruct(t.heap, "Unknown"))
    ELSE IF VALID_BINOP_TYPES(op, t.heap[left].cls, t.heap[right].cls) # ""
    THEN SetVal(t, ApplyRule(t.heap,
                             VALID_BINOP_TYPES(op, t.heap[left].cls,
                                               t.heap[right].cls),
                             left, right))
    ELSE ThenUnknown(IncompatibleTypes(t, left, right, OpName(op)))

\* visit_BinOp after the visit of the right operand, whose type is in `val`.
BinOpBoth(t2, op, left) == BinOpResult(t2, op, left, t2.val)

\* visit_BinOp after the visit of the left operand, whose type is in `val`.
BinOpRight(t1, node) == BinOpBoth(visit(t1, node.kids[2]), node.op, t1.val)

\* self.visit_BinOp(node).
visit_BinOp(t, node) == BinOpRight(visit(t, node.kids[1]), node)

\* VALID_UNARYOP_TYPES[op]: the dict {NumType: NumType} for UAdd, USub and
\* Invert, as the list of its keys; <<>> for an operator without a row.
VALID_UNARYOP_TYPES(op) ==
    IF op \in {"UAdd", "USub", "Invert"} THEN <<"NumType">> ELSE <<>>

\* type(node.op) in op_lookup, where op_lookup is the row of the operator:
\* the class of the operator looked up among the keys of the row.
OpInRow(op, row) == \E i \in 1..Len(row) : row[i] = op

\* visit_UnaryOp after the visit of the operand: Bool for not; Unknown for an
\* Unknown operand; with the operator found in its own row the next lookup,
\* `type(operand) in NumType`, raises TypeError; Unknown otherwise.
UnaryOpResult(t1, op, operand) ==
    IF t1.exc # "none" THEN t1
    ELSE IF op = "Not" THEN SetVal(t1, DefaultConstruct(t1.heap, "Bool"))
    ELSE IF t1.heap[operand].cls = "Unknown"
    THEN SetVal(t1, DefaultConstruct(t1.heap, "Unknown"))
    ELSE IF VALID_UNARYOP_TYPES(op) # <<>> /\ OpInRow(op, VALID_UNARYOP_TYPES(op))
    THEN Raise(t1, "TypeError")
    ELSE SetVal(t1, DefaultConstruct(t1.heap, "Unknown"))

\* visit_UnaryOp with the operand visited.
UnaryOpOperand(t1, node) == UnaryOpResult(t1, node.op, t1.val)

\* self.visit_UnaryOp(node).
visit_UnaryOp(t, node) == UnaryOpOperand(visit(t, node.kids[1]), node)

\* self.identify_caller(node): the id of a Name, the caller of the function
\* of a Call; for an Attribute or a Subscript the code reads `nodevalue`,
\* which is neither a local nor a global: NameError; None for anything else.
\* The name is in `name`, "" for None.
RECURSIVE identify_caller(_)
identify_caller(node) ==
    IF node.kind = "Name" THEN [exc |-> "none", name |-> node.id]
    ELSE IF node.kind = "Call" THEN identify_caller(node.kids[1])
    ELSE IF node.kind \in {"Attribute", "Subscript"}
    THEN [exc |-> "NameError", name |-> ""]
    ELSE [exc |-> "none", name |-> ""]

\* visit_AugAssign, the table has a rule: the result is stored under the name
\* and returned.
AugStore(t1, name) ==
    [store_variable(t1, name, t1.val) EXCEPT !.val = t1.val]

\* visit_AugAssign after load_variable(name): Unknown when an operand is
\* Unknown; the result of the rule, stored, when the table has one;
\* "Incompatible types" and None otherwise.
AugResult(t, op, left, right, name) ==
    IF t.exc # "none" THEN t
    ELSE IF t.heap[left].cls = "Unknown" \/ t.heap[right].cls = "Unknown"
    THEN SetVal(t, DefaultConstruct(t.heap, "Unknown"))
    ELSE IF VALID_BINOP_TYPES(op, t.heap[left].cls, t.heap[right].cls) # ""
    THEN AugStore(SetVal(t, ApplyRule(t.heap,
                                      VALID_BINOP_TYPES(op, t.heap[left].cls,
                                                        t.heap[right].cls),
                                      left, right)),
                  name)
    ELSE IncompatibleTypes(t, left, right, OpName(op))

\* visit_AugAssign after identify_caller: a target without a name makes
\* load_variable(None) raise TypeError in find_variable_scope ("/" + None).
AugLoad(t2, op, left, right, caller) ==
    IF t2.exc # "none" THEN t2
    ELSE IF caller.exc # "none" THEN Raise(t2, caller.exc)
    ELSE IF caller.name = "" THEN Raise(t2, "TypeError")
    ELSE AugResult(load_variable(t2, caller.name), op, left, right, caller.name)

\* visit_AugAssign after the visit of the target, whose type is in `val`.
AugTarget(t2, node, right) ==
    AugLoad(t2, node.op, t2.val, right, identify_caller(node.kids[1]))

\* visit_AugAssign after the visit of the value, whose type is in `val`.
AugValue(t1, node) == AugTarget(visit(t1, node.kids[1]), node, t1.val)

\* self.visit_AugAssign(node): the node holds its target and its value.
visit_AugAssign(t, node) == AugValue(visit(t, node.kids[2]), node)

\* ---------------------------------------------------------------- imports
\* chain.split('.') for the names the trees import.
split_dot(chain) ==
    IF chain = "matplotlib.pyplot" THEN <<"matplotlib", "pyplot">>
    ELSE IF chain = "foo.bar" THEN <<"foo", "bar">>
    ELSE <<chain>>

RECURSIVE LoadModuleFrom(_, _, _, _, _)

\* The loop of load_module over module_names from the i-th on, which begins
\* with the first name again: a name that is a submodule of base_module
\* replaces it, any other name reports "Submodule not found".
LoadModuleFrom(t, chain, module_names, i, base_module) ==
    IF t.exc # "none" THEN t
    ELSE IF i > Len(module_names) THEN [t EXCEPT !.val = base_module]
    ELSE IF /\ t.heap[base_module].cls = "Module"
            /\ DictHas(t.heap[base_module].submodules, module_names[i])
    THEN LoadModuleFrom(t, chain, module_names, i + 1,
                        DictGet(t.heap[base_module].submodules, module_names[i]))
    ELSE LoadModuleFrom(report_issue(t, "Submodule not found", [name |-> chain]),
                        chain, module_names, i + 1, base_module)

\* A placeholder for a missing module that has a field for every name.
LoadModuleMissing_fields(t1) ==
    IF t1.exc # "none" THEN t1
    ELSE SetVal(t1, ModuleType(t1.heap, "*UnknownModule", <<>>,
                               <<[key |-> "bar", value |-> BUILTINS_get("print")]>>))

\* load_module for a first name that MODULES does not have, after the issue:
\* a new ModuleType().
LoadModuleMissing(t1) ==
    IF t1.exc # "none" THEN t1
    ELSE SetVal(t1, ModuleType(t1.heap, "*UnknownModule", <<>>, <<>>))

\* self.load_module(chain); the module it returns is in `val`.
load_module(t, chain) ==
    IF DictHas(MODULES, split_dot(chain)[1])
    THEN LoadModuleFrom(t, chain, split_dot(chain), 1,
                        DictGet(MODULES, split_dot(chain)[1]))
    ELSE LoadModuleMissing(report_issue(t, "Module not found", [name |-> chain]))

\* load_attr keeping the UnknownType it makes for a missing attribute among
\* the fields of the type.
Type_load_attr_keep(t, self, attr) ==
    IF t.exc # "none" THEN t
    ELSE IF DictHas(t.heap[self].fields, attr)
    THEN [t EXCEPT !.val = DictGet(t.heap[self].fields, attr)]
    ELSE IF attr = "append" THEN Raise(t, "AttributeError")
    ELSE SetVal(t, Alloc([t.heap EXCEPT ![self].fields =
                              Append(@, [key |-> attr, value |-> Len(t.heap) + 1])],
                         TypeObject("Unknown", FALSE, 0, <<>>, <<>>, <<>>, <<>>)))

\* Type.load_attr(attr, tifa, callee, callee_position), which ModuleType
\* inherits: the field when the type has it; for "append" the issue's data
\* calls tifa.identifyCaller, which Tifa does not have: AttributeError; a new
\* UnknownType otherwise.
Type_load_attr(t, self, attr) ==
    IF t.exc # "none" THEN t
    ELSE IF DictHas(t.heap[self].fields, attr)
    THEN [t EXCEPT !.val = DictGet(t.heap[self].fields, attr)]
    ELSE IF attr = "append" THEN Raise(t, "AttributeError")
    ELSE SetVal(t, DefaultConstruct(t.heap, "Unknown"))

\* alias.asname or alias.name ("" is the None of asname).
AsName(alias) == IF alias.asname # "" THEN alias.asname ELSE alias.name

\* The type in `val` is stored under the name.
StoreVal(t1, name) ==
    IF t1.exc # "none" THEN t1 ELSE store_variable(t1, name, t1.val)

RECURSIVE ImportNames(_, _)

\* The loop of visit_Import over node.names.
ImportNames(t, names) ==
    IF names = <<>> \/ t.exc # "none" THEN [t EXCEPT !.val = 0]
    ELSE ImportNames(StoreVal(load_module(t, Head(names).name), AsName(Head(names))),
                     Tail(names))

\* self.visit_Import(node).
visit_Import(t, node) == ImportNames(t, node.names)

\* module_type.load_attr(alias.name, self, callee_position=self.locate()) on
\* the module in `val`.
LoadAttrOfVal(t1, attr) ==
    IF t1.exc # "none" THEN t1 ELSE Type_load_attr(t1, t1.val, attr)

RECURSIVE ImportFromNames(_, _, _)

\* The loop of visit_ImportFrom over node.names; module is node.module, ""
\* for None.
ImportFromNames(t, module, names) ==
    IF names = <<>> \/ t.exc # "none" THEN [t EXCEPT !.val = 0]
    ELSE ImportFromNames(
             StoreVal(LoadAttrOfVal(load_module(t, IF module = ""
                                                   THEN Head(names).name
                                                   ELSE module),
                                    Head(names).name),
                      AsName(Head(names))),
             module, Tail(names))

\* self.visit_ImportFrom(node).
visit_ImportFrom(t, node) == ImportFromNames(t, node.module, node.names)

\* visit: inside a function, "Action after return" when the scope has a
\* *return variable that is set.
VisitReturnCheck(t1, return_state) ==
    IF /\ Len(t1.scope_chain) > 1
       /\ return_state.exists /\ return_state.in_scope
       /\ return_state.state.set = "yes"
    THEN report_issue(t1, "Action after return", <<>>)
    ELSE t1

\* visit: super().visit(node), the visit_ method of the class of the node or
\* generic_visit.
VisitDispatch(t2, node) ==
    IF t2.exc # "none" THEN t2
    ELSE IF node.kind = "Name" THEN visit_Name(t2, node)
    ELSE IF node.kind = "Assign" THEN visit_Assign(t2, node)
    ELSE IF node.kind = "AugAssign" THEN visit_AugAssign(t2, node)
    ELSE IF node.kind = "BinOp" THEN visit_BinOp(t2, node)
    ELSE IF node.kind = "UnaryOp" THEN visit_UnaryOp(t2, node)
    ELSE IF node.kind = "Import" THEN visit_Import(t2, node)
    ELSE IF node.kind = "ImportFrom" THEN visit_ImportFrom(t2, node)
    ELSE generic_visit(t2, node)

\* visit: the node is taken off the chain, and a visitor that returned None
\* makes visit return a new UnknownType.  An exception leaves the node on the
\* chain.
VisitLeave(t3) ==
    IF t3.exc # "none" THEN t3
    ELSE IF t3.val = 0
    THEN SetVal([t3 EXCEPT !.node_chain = ButLast(@)],
                DefaultConstruct(t3.heap, "Unknown"))
    ELSE [t3 EXCEPT !.node_chain = ButLast(@)]

\* The node is put on the chain.
PushNode(t, node) == [t EXCEPT !.node_chain = Append(@, node)]

\* self.visit(node); the Type it returns is in `val`.
visit(t, node) ==
    IF t.exc # "none" THEN t
    ELSE VisitLeave(
             VisitDispatch(
                 VisitReturnCheck(PushNode(t, node),
                                  find_variable_scope(PushNode(t, node), "*return")),
                 node))

\* ------------------------------------------------------------------- state
VARIABLES
    heap,         \* the type objects
    scope_chain,  \* Tifa.scope_chain
    path_chain,   \* Tifa.path_chain
    name_map,     \* Tifa.name_map: path id -> dict of full name -> State
    node_chain,   \* Tifa.node_chain
    report,       \* Tifa.report
    pc,           \* where the analyzer is: "idle", "running", "done", "raised"
    lineno,       \* the line of the next statement of the tree
    calls,        \* history: the visits and calls of the run, with their outcome
    a, b, c,      \* lattice runs: the two input types and the clone of a
    op,           \* lattice runs: the last operation and its result
    snap,         \* lattice runs: what a denoted when it was cloned
    graphs,       \* plotting: what compatibility.get_plots() returns
    plot_check    \* plotting: the last call of check_for_plot and its result

vars == <<heap, scope_chain, path_chain, name_map, node_chain, report, pc,
          lineno, calls, a, b, c, op, snap, graphs, plot_check>>

plot_vars == <<graphs, plot_check>>

\* No graph recorded and no plot checked.
PlotsIdle ==
    /\ graphs = <<>>
    /\ plot_check = [kind |-> "none"]

lattice_vars == <<a, b, c, op, snap>>

\* The names the statements of a tree use.
Names == {"x", "y"}

\* The classes of the values store_variable is called with directly.
StoredClasses == {"Num", "Str"}

\* The report attribute of an analyzer that has not run.
UnsetReport == _error_report("*unset")

\* A Tifa object after construction: the class has no __init__, so no field is
\* set before the first run.
AnalyzerIdle ==
    /\ scope_chain = <<>>
    /\ path_chain = <<>>
    /\ name_map = <<>>
    /\ node_chain = <<>>
    /\ report = UnsetReport
    /\ pc = "idle"
    /\ lineno = 1
    /\ calls = <<>>

\* No lattice operation.
NoOp == [kind |-> "none", res |-> "", res2 |-> "", ref |-> 0, exc |-> "none"]

LatticeIdle ==
    /\ a = 0 /\ b = 0 /\ c = 0
    /\ op = NoOp
    /\ snap = [cls |-> "NoneRef"]

\* The analyzer as the operations take it.
Self ==
    [heap |-> heap, scope_chain |-> scope_chain, path_chain |-> path_chain,
     name_map |-> name_map, node_chain |-> node_chain, report |-> report,
     exc |-> "none", ret |-> NoState, val |-> 0]

\* How many records each kind of issue got between two reports.
Reported(before, after) ==
    [k \in IssueKinds |->
        IF k \in DOMAIN after.issues
        THEN Len(after.issues[k])
               - (IF k \in DOMAIN before.issues THEN Len(before.issues[k]) ELSE 0)
        ELSE 0]

\* The analyzer after a visit of the run: an exception ends process_code,
\* which sets the error report and raises it again.
AfterVisit(r, what) ==
    /\ heap' = r.heap
    /\ scope_chain' = r.scope_chain
    /\ path_chain' = r.path_chain
    /\ name_map' = r.name_map
    /\ node_chain' = r.node_chain
    /\ report' = IF r.exc = "none" THEN r.report ELSE _error_report(r.exc)
    /\ pc' = IF r.exc = "none" THEN "running" ELSE "raised"
    /\ lineno' = lineno + 1
    /\ calls' = Append(calls, what @@ [line |-> lineno, exc |-> r.exc, ret |-> r.ret,
                                       reported |-> Reported(report, r.report)])
    /\ UNCHANGED lattice_vars
    /\ UNCHANGED plot_vars

\* The fields after process_ast has reset them and made the report, inside
\* the visit of the Module node.
AfterReset(t) ==
    /\ scope_chain' = t.scope_chain
    /\ path_chain' = t.path_chain
    /\ name_map' = t.name_map
    /\ node_chain' = <<Node("Module", 0, 0, "", "", <<>>)>>
    /\ report' = _initialize_report

\* process_code(code) on code that parses, up to the visit of the first
\* statement.
ProcessBegin ==
    /\ pc = "idle"
    /\ AfterReset(_reset(Self))
    /\ pc' = "running"
    /\ lineno' = 1
    /\ calls' = <<>>
    /\ UNCHANGED <<heap, a, b, c, op, snap>>
    /\ UNCHANGED plot_vars

\* The end of a call made by the visitor of a statement: the visit leaves the
\* node unless the call raised.
PopNode(r) == IF r.exc = "none" THEN [r EXCEPT !.node_chain = ButLast(@)] ELSE r

\* The analyzer inside the visit of a statement at the current line.
InStatement == PushNode(Self, Node("Stmt", lineno, 0, "", "", <<>>))

\* store_variable(name, type) with the type the caller has just made.
StoreMade(t, name, made) ==
    store_variable([t EXCEPT !.heap = made.heap], name, made.ref)

\* A visitor of a statement at the current line calls
\* store_variable(name, cls()).
StoreCall(name, cls) ==
    /\ pc = "running" /\ lineno <= MaxSteps
    /\ AfterVisit(PopNode(StoreMade(InStatement, name, DefaultConstruct(heap, cls))),
                  [op |-> "store", name |-> name, cls |-> cls])

\* A visitor of a statement at the current line calls load_variable(name).
LoadCall(name) ==
    /\ pc = "running" /\ lineno <= MaxSteps
    /\ AfterVisit(PopNode(load_variable(InStatement, name)),
                  [op |-> "load", name |-> name, cls |-> ""])

\* A number and a name of a tree.
NumNode(line, col) == Node("Constant", line, col, "", "", <<>>)
NameNode(line, col, id, ctx) == Node("Name", line, col, id, ctx, <<>>)

\* The values an assignment of a tree has: a number, a list of three numbers,
\* a name, a name subscripted with a number.
ValueNode(shape, name, line) ==
    CASE shape = "Constant" -> NumNode(line, 4)
      [] shape = "List" ->
             Node("List", line, 4, "", "Load",
                  <<NumNode(line, 5), NumNode(line, 7), NumNode(line, 9)>>)
      [] shape = "Name" -> NameNode(line, 4, name, "Load")
      [] shape = "Subscript" ->
             Node("Subscript", line, 4, "", "Load",
                  <<NameNode(line, 4, name, "Load"), NumNode(line, 6)>>)

ValueInputs ==
    {[shape |-> "Constant", name |-> ""], [shape |-> "List", name |-> ""]}
      \cup {[shape |-> sh, name |-> n] : sh \in {"Name", "Subscript"}, n \in Names}

\* The visit of the next statement of the Module, an assignment
\* target = value.
VisitAssign(target, value) ==
    /\ pc = "running" /\ lineno <= MaxSteps
    /\ AfterVisit(visit(Self, Node("Assign", lineno, 0, "", "",
                                   <<NameNode(lineno, 0, target, "Store"),
                                     ValueNode(value.shape, value.name, lineno)>>)),
                  [op |-> "Assign", name |-> target, cls |-> "", value |-> value])

\* The visit of the next statement of the Module, an expression statement
\* that is a name.
VisitExpr(name) ==
    /\ pc = "running" /\ lineno <= MaxSteps
    /\ AfterVisit(visit(Self, Node("Expr", lineno, 0, "", "",
                                   <<NameNode(lineno, 0, name, "Load")>>)),
                  [op |-> "Expr", name |-> name, cls |-> ""])

\* process_ast after the visit of the Module: the variables go into the
\* report, the scope is finished and the top level variables are collected.
AfterTraversal(t) ==
    _collect_top_level_varaibles(
        _finish_scope([t EXCEPT !.report.variables = t.name_map]))

\* What process_code leaves: the report it returns, or the error report and
\* the exception raised again.
AfterRun(t3) ==
    /\ heap' = t3.heap
    /\ node_chain' = t3.node_chain
    /\ report' = IF t3.exc = "none" THEN t3.report ELSE _error_report(t3.exc)
    /\ pc' = IF t3.exc = "none" THEN "done" ELSE "raised"

\* The end of process_ast: the visit of the Module node ends (with the new
\* UnknownType visit returns for it) and the report is completed and returned.
ProcessEnd ==
    /\ pc = "running"
    /\ AfterRun(AfterTraversal(VisitLeave([Self EXCEPT !.val = 0])))
    /\ UNCHANGED <<scope_chain, path_chain, name_map, lineno, calls, a, b, c, op, snap>>
    /\ UNCHANGED plot_vars

Init ==
    /\ heap = BuiltinObjects
    /\ AnalyzerIdle
    /\ LatticeIdle
    /\ PlotsIdle

Next ==
    \/ ProcessBegin
    \/ \E name \in Names, cls \in StoredClasses : StoreCall(name, cls)
    \/ \E name \in Names : LoadCall(name)
    \/ \E target \in Names, value \in ValueInputs : VisitAssign(target, value)
    \/ \E name \in Names : VisitExpr(name)
    \/ ProcessEnd

\* The analyzer: one run of process_code on a tree of at most MaxSteps
\* statements.
Spec == Init /\ [][Next]_vars

\* ------------------------------------------------------------ repeated runs
\* An operation applied to operands: the operator is a field of the node.
UnaryOpNode(operator, line, col, operand) ==
    [op |-> operator] @@ Node("UnaryOp", line, col, "", "", <<operand>>)
BinOpNode(operator, line, col, left, right) ==
    [op |-> operator] @@ Node("BinOp", line, col, "", "", <<left, right>>)

\* not 0, the expression of the trees that has a type the table of binary
\* operators knows.
NotNode(line, col) == UnaryOpNode("Not", line, col + 4, NumNode(line, col + 4))

\* The expressions of a tree: 0, x, len, not 0, -0, (not 0) | (not 0),
\* (not 0) + (not 0), ((not 0) | (not 0)) | (not 0).
ExprNode(shape, line) ==
    CASE shape = "Constant" -> NumNode(line, 4)
      [] shape \in {"x", "len"} -> NameNode(line, 4, shape, "Load")
      [] shape = "Not" -> NotNode(line, 4)
      [] shape = "USub" -> UnaryOpNode("USub", line, 4, NumNode(line, 5))
      [] shape \in {"BitOr", "Add"} ->
             BinOpNode(shape, line, 4, NotNode(line, 4), NotNode(line, 14))
      [] shape = "BitOrBitOr" ->
             BinOpNode("BitOr", line, 4,
                       BinOpNode("BitOr", line, 4, NotNode(line, 4),
                                 NotNode(line, 14)),
                       NotNode(line, 24))

ExprShapes == {"Constant", "x", "len", "Not", "USub", "BitOr", "Add", "BitOrBitOr"}

\* A statement of a tree, described: an expression statement, an assignment
\* to a name, an augmented assignment to a name, import module [as asname] and
\* from module import name.
Stmt(kind, name, value, module, asname) ==
    [kind |-> kind, name |-> name, value |-> value, module |-> module,
     asname |-> asname]

StmtInputs ==
    {Stmt("Expr", "", v, "", "") : v \in {"x", "len", "Add", "BitOrBitOr"}}
      \cup {Stmt("Assign", n, v, "", "") : n \in {"x", "len"}, v \in ExprShapes}
      \cup {Stmt("AugAssign", "x", "Constant", "", "")}
      \cup {Stmt("Import", m, "", "", "") :
                m \in {"math", "foo", "foo.bar", "matplotlib.pyplot"}}
      \cup {Stmt("Import", "matplotlib.pyplot", "", "", "x")}
      \cup {Stmt("ImportFrom", "pi", "", "math", ""),
            Stmt("ImportFrom", "append", "", "math", ""),
            Stmt("ImportFrom", "tan", "", "random", ""),
            Stmt("ImportFrom", "bar", "", "foo", "")}

\* The node of a statement at a line.
StmtNode(s, line) ==
    CASE s.kind = "Expr" ->
             Node("Expr", line, 0, "", "", <<ExprNode(s.value, line)>>)
      [] s.kind = "Assign" ->
             Node("Assign", line, 0, "", "",
                  <<NameNode(line, 0, s.name, "Store"), ExprNode(s.value, line)>>)
      [] s.kind = "AugAssign" ->
             [op |-> "Add"]
               @@ Node("AugAssign", line, 0, "", "",
                       <<NameNode(line, 0, s.name, "Store"), ExprNode(s.value, line)>>)
      [] s.kind = "Import" ->
             [names |-> <<[name |-> s.name, asname |-> s.asname]>>]
               @@ Node("Import", line, 0, "", "", <<>>)
      [] s.kind = "ImportFrom" ->
             [module |-> s.module,
              names |-> <<[name |-> s.name, asname |-> s.asname]>>]
               @@ Node("ImportFrom", line, 0, "", "", <<>>)

\* The visit of the next statement of the Module.
VisitStmt(s) ==
    /\ pc = "running" /\ lineno <= MaxStmts
    /\ AfterVisit(visit(Self, StmtNode(s, lineno)),
                  [op |-> s.kind, name |-> s.name, cls |-> "", stmt |-> s])

\* process_code(code) on code that does not parse: ast.parse raises, the
\* handler sets the error report and raises the error again; no other field
\* of the analyzer is touched.
ParseFail ==
    /\ pc \in {"idle", "done"}
    /\ report' = _error_report("SyntaxError")
    /\ pc' = "raised"
    /\ calls' = Append(calls, [op |-> "parse", name |-> "", cls |-> "",
                               before |-> report])
    /\ UNCHANGED <<heap, scope_chain, path_chain, name_map, node_chain, lineno>>
    /\ UNCHANGED lattice_vars
    /\ UNCHANGED plot_vars

\* A State and the data of an issue with the types they hold by value.
StateValue(h, state) == [state EXCEPT !.type = Value(h, state.type)]
IssueValue(h, data) ==
    [k \in DOMAIN data |->
        IF k \in {"type", "old", "new", "left", "right"} THEN Value(h, data[k])
        ELSE data[k]]

\* A report by value: what two reports have to agree on to be identical.
ReportValue(h, r) ==
    [k \in DOMAIN r |->
        IF k = "issues"
        THEN [kind \in DOMAIN r.issues |->
                 [i \in 1..Len(r.issues[kind]) |-> IssueValue(h, r.issues[kind][i])]]
        ELSE IF k = "variables"
        THEN [path \in DOMAIN r.variables |->
                 [i \in 1..Len(r.variables[path]) |->
                     [key |-> r.variables[path][i].key,
                      value |-> StateValue(h, r.variables[path][i].value)]]]
        ELSE r[k]]

\* The tree of the run: the statements visited, in order.
TreeOf(history) ==
    [i \in 1..Len(history) |-> StmtNode(history[i].stmt, history[i].line)]

\* process_ast after _reset: the new report, and the visit of the Module node
\* begun.
StartRun(t1) ==
    [t1 EXCEPT !.report = _initialize_report,
               !.node_chain = <<Node("Module", 0, 0, "", "", <<>>)>>]

\* process_code on a tree, as one step: process_ast, and the error report
\* when it raises.
RunReport(t3) ==
    IF t3.exc = "none" THEN t3 ELSE [t3 EXCEPT !.report = _error_report(t3.exc)]
process_code(t, tree) ==
    RunReport(AfterTraversal(VisitLeave(VisitAll(StartRun(_reset(t)), tree))))

\* An analyzer just constructed, with the objects there are.
NewAnalyzer ==
    [Self EXCEPT !.scope_chain = <<>>, !.path_chain = <<>>, !.name_map = <<>>,
                 !.node_chain = <<>>, !.report = UnsetReport]

\* The analyzer after the second run; a second analyzer is dropped after it.
AfterAgain(r, fresh) ==
    /\ heap' = r.heap
    /\ report' = IF fresh THEN report ELSE r.report
    /\ scope_chain' = IF fresh THEN scope_chain ELSE r.scope_chain
    /\ path_chain' = IF fresh THEN path_chain ELSE r.path_chain
    /\ name_map' = IF fresh THEN name_map ELSE r.name_map
    /\ node_chain' = IF fresh THEN node_chain ELSE r.node_chain
    /\ calls' = Append(calls, [op |-> "again", name |-> "", cls |-> "",
                               fresh |-> fresh, exc |-> r.exc,
                               first |-> ReportValue(heap, report),
                               second |-> ReportValue(r.heap, r.report)])

\* The tree of the run is analysed once more, by the same analyzer or by one
\* just constructed.
ProcessAgain(fresh) ==
    /\ pc \in {"done", "raised"}
    /\ \A i \in 1..Len(calls) : calls[i].op \notin {"parse", "again"}
    /\ AfterAgain(process_code(IF fresh THEN NewAnalyzer ELSE Self, TreeOf(calls)),
                  fresh)
    /\ UNCHANGED <<pc, lineno>>
    /\ UNCHANGED lattice_vars
    /\ UNCHANGED plot_vars

\* The module tifa imported and an analyzer constructed.
RunsInit ==
    /\ heap = Registry
    /\ AnalyzerIdle
    /\ LatticeIdle
    /\ PlotsIdle

RunsNext ==
    \/ ProcessBegin
    \/ \E s \in StmtInputs : VisitStmt(s)
    \/ ProcessEnd
    \/ ParseFail
    \/ \E fresh \in BOOLEAN : ProcessAgain(fresh)

\* Runs of one analyzer on trees of at most MaxStmts statements, with imports
\* and operators, and the tree's run repeated.
SpecRuns == RunsInit /\ [][RunsNext]_vars

\* ------------------------------------------------------------ lattice runs
\* None, given where a type is expected.
NoneDesc == TypeDesc("NoneRef", FALSE, <<>>, FALSE)

\* The inputs of a lattice run: a type a and a type b or None, of at most
\* MaxNodes type objects together.
InputPairs ==
    UNION {{<<x, y>> : x \in TypesOfSize(sa, LeafClasses),
                       y \in IF sb = 0 THEN {NoneDesc}
                             ELSE TypesOfSize(sb, LeafClasses)} :
               <<sa, sb>> \in {p \in (1..MaxNodes) \X (0..MaxNodes) :
                                   p[1] + p[2] <= MaxNodes}}

\* a and b built, a first.
InputsBuilt(ba, y) ==
    /\ a = ba.ref
    /\ b = Build(ba.heap, y).ref
    /\ heap = Build(ba.heap, y).heap

TypesInit ==
    /\ \E pair \in InputPairs : InputsBuilt(Build(<<>>, pair[1]), pair[2])
    /\ c = 0
    /\ op = NoOp
    /\ snap = [cls |-> "NoneRef"]
    /\ AnalyzerIdle
    /\ PlotsIdle

analyzer_vars == <<scope_chain, path_chain, name_map, node_chain, report, pc,
                   lineno, calls>>

\* are_types_equal(a, b) and are_types_equal(b, a).
Equal ==
    /\ op.kind = "none"
    /\ op' = [NoOp EXCEPT !.kind = "equal",
                          !.res = are_types_equal(heap, a, b),
                          !.res2 = are_types_equal(heap, b, a)]
    /\ UNCHANGED <<heap, a, b, c, snap>>
    /\ UNCHANGED analyzer_vars
    /\ UNCHANGED plot_vars

\* The lattice after a call that returns a type or raises.
AfterTypeCall(kind, r) ==
    /\ heap' = r.heap
    /\ op' = [NoOp EXCEPT !.kind = kind, !.ref = r.ref, !.exc = r.exc]

\* a.index(i), i a LiteralNum or a plain number.
Index(i) ==
    /\ op.kind = "none"
    /\ AfterTypeCall("index", index(heap, a, i))
    /\ UNCHANGED <<a, b, c, snap>>
    /\ UNCHANGED analyzer_vars
    /\ UNCHANGED plot_vars

\* The lattice after c = a.clone(), with are_types_equal(a, c).
AfterClone(r) ==
    /\ heap' = r.heap
    /\ c' = r.ref
    /\ op' = [NoOp EXCEPT !.kind = "clone", !.ref = r.ref,
                          !.res = are_types_equal(r.heap, a, r.ref)]

\* c = a.clone().
Clone ==
    /\ op.kind = "none"
    /\ AfterClone(clone(heap, a))
    /\ snap' = Value(heap, a)
    /\ UNCHANGED <<a, b>>
    /\ UNCHANGED analyzer_vars
    /\ UNCHANGED plot_vars

\* The append function of a list type, called with a type just made.
AppendMade(o, made) == _append(made.heap, o, <<made.ref>>)

\* A list type the clone holds (or is) gets an element type appended:
\* o.load_attr("append") called with a new cls().
AppendTo(o, cls) ==
    /\ op.kind = "clone"
    /\ o \in Reach(heap, c)
    /\ heap[o].cls \in ListClasses
    /\ heap' = AppendMade(o, DefaultConstruct(heap, cls))
    /\ op' = [NoOp EXCEPT !.kind = "append", !.ref = o]
    /\ UNCHANGED <<a, b, c, snap>>
    /\ UNCHANGED analyzer_vars
    /\ UNCHANGED plot_vars

\* The analyzer inside a run, at the node of an operation, its operands
\* visited.
AtOperation == StartRun(_reset(Self))

\* The lattice after an operator was applied: the type it gave, whether that
\* type equals the first operand, and how many "Incompatible types" issues
\* the visitor reported.
AfterOperation(kind, operator, r, first) ==
    /\ heap' = r.heap
    /\ op' = [operator |-> operator,
              issues |-> IF r.exc = "none"
                         THEN Len(r.report.issues["Incompatible types"]) ELSE 0]
               @@ [NoOp EXCEPT !.kind = kind, !.ref = r.val, !.exc = r.exc,
                               !.res = IF r.exc = "none"
                                       THEN are_types_equal(r.heap, r.val, first)
                                       ELSE ""]
    /\ UNCHANGED <<a, b, c, snap>>
    /\ UNCHANGED analyzer_vars
    /\ UNCHANGED plot_vars

\* The operators the lattice runs apply.
BinOps == {"Add", "Mult", "BitOr"}
UnaryOps == {"UAdd", "USub", "Invert", "Not"}

\* visit_BinOp on a node whose operands evaluated to a and b.
BinOp(operator) ==
    /\ op.kind = "none" /\ b # 0
    /\ AfterOperation("binop", operator, BinOpResult(AtOperation, operator, a, b), a)

\* visit_BinOp on a node whose operands both evaluated to a (x op x).
BinOpSame(operator) ==
    /\ op.kind = "none"
    /\ AfterOperation("binop_same", operator,
                      BinOpResult(AtOperation, operator, a, a), a)

\* The definition of the builtin list or set is called, without arguments or
\* with a.
CallBuiltin(name, args) ==
    /\ op.kind = "none"
    /\ heap' = CallBuiltinDefinition(heap, name, args).heap
    /\ op' = [operator |-> name, args |-> args]
               @@ [NoOp EXCEPT !.kind = "builtin",
                               !.ref = CallBuiltinDefinition(heap, name, args).ref,
                               !.exc = CallBuiltinDefinition(heap, name, args).exc]
    /\ UNCHANGED <<a, b, c, snap>>
    /\ UNCHANGED analyzer_vars
    /\ UNCHANGED plot_vars

\* visit_BinOp on a node whose left operand is the operation just evaluated
\* and whose right operand evaluated to b: (a op b) op b.
BinOpAgain ==
    /\ op.kind = "binop" /\ op.exc = "none"
    /\ AfterOperation("binop2", op.operator,
                      BinOpResult(AtOperation, op.operator, op.ref, b), a)

\* visit_UnaryOp on a node whose operand evaluated to a.
UnaryOp(operator) ==
    /\ op.kind = "none"
    /\ AfterOperation("unaryop", operator, UnaryOpResult(AtOperation, operator, a), a)

TypesNext ==
    \/ Equal
    \/ \E i \in 0..MaxIndex, lit \in BOOLEAN : Index([literal |-> lit, value |-> i])
    \/ Clone
    \/ \E o \in 1..Len(heap), cls \in {"Num", "Str"} : AppendTo(o, cls)
    \/ \E operator \in BinOps : BinOp(operator)
    \/ \E operator \in BinOps : BinOpSame(operator)
    \/ \E name \in {"list", "set"}, args \in {<<>>, <<a>>} : CallBuiltin(name, args)
    \/ BinOpAgain
    \/ \E operator \in UnaryOps : UnaryOp(operator)

\* The type lattice: two types are built and one operation of the lattice is
\* applied to them.
SpecTypes == TypesInit /\ [][TypesNext]_vars

\* ----------------------------------------------------------------- plotting
\* The data check_for_plot is given as correct: a list of numbers, or a list
\* of two lists of numbers (the xs and the ys).
Correct(nested, items) == [nested |-> nested, items |-> items]

\* compare_data: correct_ys; the whole of `correct` when the type is hist.
correct_ys(type, correct) ==
    IF type = "hist" THEN correct
    ELSE IF correct.items = <<>> THEN Correct(FALSE, <<>>)
    ELSE IF correct.nested THEN Correct(FALSE, correct.items[2])
    ELSE correct

\* compare_data: correct_xs, which is None and not read when the type is
\* hist; list(range(len(correct))) for a list of numbers.
correct_xs(type, correct) ==
    IF correct.items = <<>> THEN <<>>
    ELSE IF correct.nested THEN correct.items[1]
    ELSE [i \in 1..Len(correct.items) |-> i - 1]

\* expected == plotted for the list a plot holds: a list of lists is no list
\* of numbers.
ListEq(expected, plotted) == ~expected.nested /\ expected.items = plotted

\* compare_data(type, correct, given).
compare_data(type, correct, given) ==
    IF given.type = "hist" THEN ListEq(correct_ys(type, correct), given.values)
    ELSE IF type = "hist" THEN ListEq(correct_ys(type, correct), given.y)
    ELSE /\ correct_xs(type, correct) = given.x
         /\ ListEq(correct_ys(type, correct), given.y)

\* GRAPH_TYPES.get(type, type).
GRAPH_TYPES(type) ==
    CASE type = "line" -> "line plot"
      [] type = "hist" -> "histogram"
      [] type = "scatter" -> "scatter plot"
      [] OTHER -> type

\* The loop of check_for_plot before its first plot.
NothingFound == [returned |-> FALSE, type_found |-> FALSE, data_found |-> FALSE]

\* The body of the loop returning as soon as a plot has the type or the data.
CheckPlot_either(found, type, data, a_plot) ==
    IF found.returned THEN found
    ELSE IF a_plot.type = type \/ compare_data(type, data, a_plot)
    THEN [found EXCEPT !.returned = TRUE]
    ELSE found

\* The body of the loop of check_for_plot for one plot: return False when the
\* plot has the type and the data, note the type and the data otherwise.
CheckPlot(found, type, data, a_plot) ==
    IF found.returned THEN found
    ELSE IF a_plot.type = type /\ compare_data(type, data, a_plot)
    THEN [found EXCEPT !.returned = TRUE]
    ELSE [found EXCEPT !.type_found = @ \/ a_plot.type = type,
                       !.data_found = @ \/ compare_data(type, data, a_plot)]

RECURSIVE CheckPlots(_, _, _, _)
RECURSIVE CheckGraphs(_, _, _, _)

\* for a_plot in graph['data'].
CheckPlots(found, type, data, plots) ==
    IF plots = <<>> THEN found
    ELSE CheckPlots(CheckPlot(found, type, data, Head(plots)), type, data, Tail(plots))

\* for graph in compatibility.get_plots().
CheckGraphs(found, type, data, gs) ==
    IF gs = <<>> THEN found
    ELSE CheckGraphs(CheckPlots(found, type, data, Head(gs).data), type, data, Tail(gs))

\* What check_for_plot returns after the loop: False, or the message, given
\* as its text and the label put into it.
PlotAnswer(found, label) ==
    IF found.returned THEN <<"False">>
    ELSE IF found.type_found /\ found.data_found
    THEN <<"You have created a {}, but it does not have the right data. That data appears to have been plotted in another graph.", label>>
    ELSE IF found.type_found
    THEN <<"You have created a {}, but it does not have the right data.", label>>
    ELSE IF found.data_found
    THEN <<"You have plotted the right data, but you appear to have not plotted it as a {}.", label>>
    ELSE <<"You have not created a {} with the proper data.", label>>

\* check_for_plot after 'plot' is made 'line'.
CheckForType(type, data, gs) ==
    PlotAnswer(CheckGraphs(NothingFound, type, data, gs), GRAPH_TYPES(type))

\* check_for_plot(type, data) with the graphs get_plots returns.
check_for_plot(type, data, gs) ==
    CheckForType(IF type = "plot" THEN "line" ELSE type, data, gs)

\* The plots a graph can hold: a histogram with its values, a line or scatter
\* plot with its xs and ys.
PlotInputs ==
    {[type |-> "hist", values |-> ys] : ys \in {<<>>, <<1>>}}
      \cup {[type |-> ty, x |-> xs, y |-> ys] :
                ty \in {"line", "scatter"}, xs \in {<<>>, <<0>>, <<1>>},
                ys \in {<<>>, <<1>>}}

\* The graphs recorded: at most MaxPlots plots, all in one graph or each in a
\* graph of its own.
GraphInputs ==
    {<<>>}
      \cup UNION {{<<[data |-> plots]>> : plots \in [1..n -> PlotInputs]} :
                     n \in 0..MaxPlots}
      \cup UNION {{[i \in 1..n |-> [data |-> <<plots[i]>>]] :
                       plots \in [1..n -> PlotInputs]} : n \in 2..MaxPlots}

\* The data asked for: [], [1], ([0], [1]) and ([1], [1]).
CorrectInputs ==
    {Correct(FALSE, <<>>), Correct(FALSE, <<1>>),
     Correct(TRUE, <<(<<0>>), (<<1>>)>>), Correct(TRUE, <<(<<1>>), (<<1>>)>>)}

PlotsInit ==
    /\ graphs \in GraphInputs
    /\ plot_check = [kind |-> "none"]
    /\ heap = <<>>
    /\ AnalyzerIdle
    /\ LatticeIdle

\* check_for_plot(type, data) is called.
CheckForPlot(type, data) ==
    /\ plot_check.kind = "none"
    /\ plot_check' = [kind |-> "check", type |-> type, data |-> data,
                      answer |-> check_for_plot(type, data, graphs)]
    /\ UNCHANGED <<heap, graphs>>
    /\ UNCHANGED analyzer_vars
    /\ UNCHANGED lattice_vars

PlotsNext ==
    \E type \in {"plot", "line", "hist", "scatter"}, data \in CorrectInputs :
        CheckForPlot(type, data)

\* The plot checks of the toolkit: graphs are recorded and check_for_plot is
\* called once.
SpecPlots == PlotsInit /\ [][PlotsNext]_vars

\* ------------------------------------------------------------------ claims
\* The run has a State for the name in the module scope on the main path.
HasRecorded(name) ==
    /\ pc \in {"running", "done"}
    /\ DictHas(name_map[0], <<"0", name>>)

\* That State.
Recorded(name) == DictGet(name_map[0], <<"0", name>>)

\* The records of a kind the report has for a name.
IssuesNaming(kind, name) ==
    Cardinality({i \in 1..Len(report.issues[kind]) :
                     report.issues[kind][i].name = name})

\* s is the beginning of q.
IsPrefix(s, q) == Len(s) <= Len(q) /\ SubSeq(q, 1, Len(s)) = s

\* The call at position i of the run is op on the name.
IsCall(i, what, name) == calls[i].op = what /\ calls[i].name = name

\* The name is written by the call at position i of the run.
Writes(i, name) == calls[i].op \in {"store", "Assign"} /\ calls[i].name = name

\* C1: are_types_equal(Unknown, t) and are_types_equal(t, Unknown) are both
\* false for every type t, an UnknownType included.
C1_UnknownNeverEqual ==
    (/\ op.kind = "equal"
     /\ \/ heap[a].cls = "Unknown"
        \/ (b # 0 /\ heap[b].cls = "Unknown"))
    => op.res = "False" /\ op.res2 = "False"

\* Two UnknownType objects have been compared.
C1_Witness ==
    /\ op.kind = "equal"
    /\ b # 0
    /\ heap[a].cls = "Unknown" /\ heap[b].cls = "Unknown"
    /\ op.res = "False" /\ op.res2 = "False"

\* C2: a load_variable that follows a store_variable of the same name in the
\* same scope and path reports neither "Undefined variables" nor "Read out of
\* scope", and the State it returns has the stored type.
C2_LoadResolvesStore ==
    \A i \in 2..Len(calls) :
        \A n \in Names :
            (IsCall(i - 1, "store", n) /\ IsCall(i, "load", n))
            => /\ calls[i].exc = "none"
               /\ calls[i].reported["Undefined variables"] = 0
               /\ calls[i].reported["Read out of scope"] = 0
               /\ calls[i].ret.type # 0
               /\ heap[calls[i].ret.type].cls = calls[i - 1].cls

\* The run ends with load_variable(name), after a store_variable(name, _) with
\* no write of the name between the two.
StoredThenLoaded(name) ==
    /\ pc = "running"
    /\ calls # <<>>
    /\ IsCall(Len(calls), "load", name)
    /\ \E j \in 1..(Len(calls) - 1) :
           /\ IsCall(j, "store", name)
           /\ \A k \in (j + 1)..(Len(calls) - 1) : ~Writes(k, name)

\* C3: after store_variable(x, t) and then load_variable(x), with no other
\* write of x between them, the State recorded for x has read = yes.
C3_LoadMarksRead ==
    \A n \in Names :
        StoredThenLoaded(n) => HasRecorded(n) /\ Recorded(n).read = "yes"

\* x has been stored and then loaded, and its State is read.
C3_Witness ==
    /\ Len(calls) = 2
    /\ IsCall(1, "store", "x")
    /\ StoredThenLoaded("x")
    /\ HasRecorded("x") /\ Recorded("x").read = "yes"

\* C4: of two store_variable calls of one name in one scope with no load
\* between them, the second returns a State with over = yes and
\* over_position = the position of the first.
C4_SecondStoreOverwrites ==
    \A i \in 2..Len(calls) :
        \A n \in Names :
            (IsCall(i - 1, "store", n) /\ IsCall(i, "store", n))
            => /\ calls[i].exc = "none"
               /\ calls[i].ret.over = "yes"
               /\ calls[i].ret.over_position = calls[i - 1].ret.position

\* C5: at the end of a run every variable of the module scope has one
\* "Overwritten variables" issue if its over flag is yes and one "Unread
\* variables" issue if its read flag is no; a variable stored and never loaded
\* has the "Unread variables" issue.
C5_SweepReports ==
    pc = "done" =>
        \A i \in 1..Len(name_map[0]) :
            ButLast(name_map[0][i].key) = <<"0">> =>
                /\ name_map[0][i].value.read = "no" =>
                       IssuesNaming("Unread variables", name_map[0][i].value.name) = 1
                /\ name_map[0][i].value.over = "yes" =>
                       IssuesNaming("Overwritten variables",
                                    name_map[0][i].value.name) = 1

\* C6: store_variable(x, Num) followed by store_variable(x, Str) reports
\* exactly one "Type changes" issue, with old = Num and new = Str.
C6_TypeChangeReported ==
    \A i \in 2..Len(calls) :
        \A n \in Names :
            (/\ IsCall(i - 1, "store", n) /\ calls[i - 1].cls = "Num"
             /\ IsCall(i, "store", n) /\ calls[i].cls = "Str")
            => /\ calls[i].exc = "none"
               /\ calls[i].reported["Type changes"] = 1
               /\ (i = Len(calls) /\ pc = "running") =>
                      LET rec == report.issues["Type changes"]
                                     [Len(report.issues["Type changes"])]
                      IN  /\ rec.name = n
                          /\ heap[rec.old].cls = "Num"
                          /\ heap[rec.new].cls = "Str"

\* C7: load_variable of a name that is no builtin and that nothing has
\* assigned reports exactly one "Undefined variables" issue and no "Read out
\* of scope" issue, and returns a State of type Unknown with read = yes and
\* set = no.
C7_UndefinedLoad ==
    \A i \in 1..Len(calls) :
        \A n \in Names :
            (/\ IsCall(i, "load", n)
             /\ BUILTINS_get(n) = 0
             /\ \A j \in 1..(i - 1) : ~Writes(j, n))
            => /\ calls[i].exc = "none"
               /\ calls[i].reported["Undefined variables"] = 1
               /\ calls[i].reported["Read out of scope"] = 0
               /\ heap[calls[i].ret.type].cls = "Unknown"
               /\ calls[i].ret.read = "yes"
               /\ calls[i].ret.set = "no"

\* a holds no UnknownType, which is equal to nothing.
AllKnown(h, r) == \A o \in Reach(h, r) : h[o].cls # "Unknown"

\* C8: a container a that is not empty (List, Set, Generator, Tuple, Dict) is
\* equal to its clone by are_types_equal, and a change of the subtype of the
\* clone leaves a as it was.  The containers taken are those that hold no
\* UnknownType.
C8_CloneEqualAndApart ==
    /\ (op.kind = "clone" /\ NonEmptyContainer(heap, a) /\ AllKnown(heap, a))
       => op.res = "True"
    /\ (op.kind = "append" /\ NonEmptyContainer(heap, a) /\ AllKnown(heap, a))
       => Value(heap, a) = snap

\* C9: the index of a non-empty list of Num is Num whatever the index is, so
\* after x = [1, 2, 3] and y = x[0] the type recorded for y is Num.
C9_IndexedListIsNum ==
    /\ (/\ op.kind = "index"
        /\ heap[a].cls = "List" /\ ~heap[a].empty
        /\ heap[heap[a].subtype].cls = "Num")
       => op.exc = "none" /\ heap[op.ref].cls = "Num"
    /\ (/\ pc = "running"
        /\ Len(calls) = 2
        /\ IsCall(1, "Assign", "x") /\ calls[1].value.shape = "List"
        /\ IsCall(2, "Assign", "y")
        /\ calls[2].value = [shape |-> "Subscript", name |-> "x"])
       => /\ calls[2].exc = "none"
          /\ HasRecorded("y")
          /\ heap[Recorded("y").type].cls = "Num"

\* C10: the report of a run that succeeds has success = true and an issues
\* mapping with the 29 kinds, each an ordered sequence that is empty when the
\* run begins, and a report_issue only appends to the sequence of its kind.
C10_ReportShape ==
    /\ [](pc \in {"running", "done"} =>
              /\ report.success
              /\ DOMAIN report.issues = IssueKinds
              /\ Cardinality(IssueKinds) = 29
              /\ calls = <<>> /\ pc = "running" =>
                     \A k \in IssueKinds : report.issues[k] = <<>>)
    /\ [][(pc = "running" /\ pc' \in {"running", "done"}) =>
              \A k \in IssueKinds : IsPrefix(report.issues[k], report'.issues[k])]_vars

\* A run has ended with two records of one kind of issue.
C10_Witness ==
    /\ pc = "done"
    /\ report.success
    /\ Len(report.issues["Undefined variables"]) = 2
    /\ report.issues["Undefined variables"][1].name
         # report.issues["Undefined variables"][2].name

\* C11: after a run that succeeds, top_level_variables maps the bare name of
\* every variable recorded in the module scope (a scope chain of length one)
\* to the final State of the variable, and holds no other variable.
C11_TopLevelVariables ==
    pc = "done" =>
        /\ \A i \in 1..Len(name_map[0]) :
               Len(name_map[0][i].key) = 2 =>
                   /\ DictHas(report.top_level_variables, name_map[0][i].key[2])
                   /\ DictGet(report.top_level_variables, name_map[0][i].key[2])
                        = name_map[0][i].value
        /\ \A j \in 1..Len(report.top_level_variables) :
               \E i \in 1..Len(name_map[0]) :
                   /\ Len(name_map[0][i].key) = 2
                   /\ name_map[0][i].key[2] = report.top_level_variables[j].key

\* The call at position i of the run is a load_variable of the name, made
\* directly or by the visit of a Name expression statement.
Loads(i, name) == IsCall(i, "load", name) \/ IsCall(i, "Expr", name)

\* C16: in a run that never stores a name, every load_variable of the name,
\* the first and each later one, reports "Undefined variables" and none
\* reports "Read out of scope".
C16_EveryLoadUndefined ==
    \A n \in Names :
        (\A j \in 1..Len(calls) : ~Writes(j, n)) =>
            \A i \in 1..Len(calls) :
                Loads(i, n) =>
                    /\ calls[i].reported["Undefined variables"] = 1
                    /\ calls[i].reported["Read out of scope"] = 0
\* C12: when process_code fails to parse the code, the report the analyzer
\* has afterwards is the error report (success false, the error, no issues,
\* no variables), whatever report a run before had left, and the error is
\* raised to the caller.
C12_ParseFailureReport ==
    (calls # <<>> /\ calls[Len(calls)].op = "parse") =>
        /\ pc = "raised"
        /\ DOMAIN report = {"success", "error", "issues", "variables"}
        /\ report.success = FALSE
        /\ report.error = "SyntaxError"
        /\ DOMAIN report.issues = {}
        /\ report.variables = <<>>

\* ... reached after a run that had left a report with a variable.
C12_Witness ==
    /\ Len(calls) > 1
    /\ calls[Len(calls)].op = "parse"
    /\ calls[Len(calls)].before.success
    /\ calls[Len(calls)].before.variables[0] # <<>>

\* C13: a second run on the same tree, by the same analyzer or by a new one,
\* gives a report identical to the report of the first run.
C13_SecondRunSameReport ==
    \A i \in 1..Len(calls) :
        calls[i].op = "again" => calls[i].first = calls[i].second

\* ... reached by a second run of the same analyzer on a tree that left an
\* issue and a variable.
C13_Witness ==
    /\ calls # <<>>
    /\ calls[Len(calls)].op = "again"
    /\ ~calls[Len(calls)].fresh
    /\ calls[Len(calls)].first.success
    /\ calls[Len(calls)].first.issues["Undefined variables"] # <<>>
    /\ calls[Len(calls)].second.variables[0] # <<>>

\* C14: the objects of BUILTINS and MODULES are the same after any visits,
\* stores, loads and imports of any runs.
C14_RegistryUnchanged ==
    /\ Len(heap) >= Len(Registry)
    /\ \A i \in 1..Len(Registry) : heap[i] = Registry[i]

\* ... reached by a run that imported from a module of the registry a name
\* it does not have and stored a builtin under a name.
C14_Witness ==
    /\ pc = "done"
    /\ Len(calls) = 2
    /\ \E i \in 1..2 : /\ calls[i].op = "ImportFrom"
                       /\ calls[i].stmt.module = "random"
                       /\ calls[i].exc = "none"
    /\ \E i \in 1..2 : /\ calls[i].op = "Assign"
                       /\ calls[i].stmt.value = "len"
                       /\ calls[i].exc = "none"

\* C15: the visit of a statement with a binary operation whose operands are
\* not Unknown and have no entry in the table ((not 0) + (not 0)) returns,
\* with exactly one "Incompatible types" issue reported.
C15_IncompatibleReported ==
    \A i \in 1..Len(calls) :
        (calls[i].op \in {"Expr", "Assign"} /\ calls[i].stmt.value = "Add") =>
            /\ calls[i].exc = "none"
            /\ calls[i].reported["Incompatible types"] = 1

\* C18: once a variable named len is stored, loading len gives the variable
\* and marks it read, not the builtin.
C18_StoredNameShadowsBuiltin ==
    ( /\ Len(calls) = 2
      /\ calls[1].op = "Assign" /\ calls[1].name = "len" /\ calls[1].exc = "none"
      /\ calls[2].op = "Expr" /\ calls[2].stmt.value = "len"
      /\ calls[2].exc = "none" ) =>
        /\ DictHas(name_map[0], <<"0", "len">>)
        /\ DictGet(name_map[0], <<"0", "len">>).read = "yes"

\* C19: an operation whose operands hit NumType_any, StrType_any or
\* BoolType_any in the table gives a value of that type: it equals a value of
\* the type, and the same operation applied to it again gives such a value
\* again, without an issue.
C19_AnyRuleGivesValue ==
    ( /\ op.kind \in {"binop", "binop2"}
      /\ b # 0
      /\ heap[a].cls = heap[b].cls
      /\ heap[a].cls \in (IF op.operator = "BitOr" THEN {"Num", "Bool"}
                          ELSE IF op.operator = "Add" THEN {"Num", "Str"}
                          ELSE {"Num"}) ) =>
        /\ op.exc = "none"
        /\ op.issues = 0
        /\ heap[op.ref].cls = heap[a].cls
        /\ op.res = "True"

\* C20: +, - and ~ applied to a Num operand evaluate to Num.
C20_UnaryOnNumIsNum ==
    ( /\ op.kind = "unaryop"
      /\ op.operator \in {"UAdd", "USub", "Invert"}
      /\ heap[a].cls = "Num" ) =>
        /\ op.exc = "none"
        /\ heap[op.ref].cls = "Num"

\* C21: import of a path whose every component is in the registry (math,
\* matplotlib.pyplot) reports no "Submodule not found" issue.
C21_ResolvedPathNoIssue ==
    \A i \in 1..Len(calls) :
        (calls[i].op = "Import" /\ calls[i].name \in {"math", "matplotlib.pyplot"}) =>
            /\ calls[i].exc = "none"
            /\ calls[i].reported["Submodule not found"] = 0

\* The import of a module the registry does not have, or from one.
ImportsMissing(i) ==
    \/ calls[i].op = "Import" /\ calls[i].name \in {"foo", "foo.bar"}
    \/ calls[i].op = "ImportFrom" /\ calls[i].stmt.module = "foo"

RightOperand == IF op.kind = "binop_same" THEN a ELSE b

\* C23: + on two list types gives a list type, and + on two tuple types a
\* tuple type whose subtypes are those of the left operand followed by those
\* of the right.
C23_AddMergesContainers ==
    ( /\ op.kind \in {"binop", "binop_same"}
      /\ op.operator = "Add"
      /\ heap[a].cls \in {"List", "Tuple"}
      /\ heap[RightOperand].cls = heap[a].cls ) =>
        /\ op.exc = "none"
        /\ heap[op.ref].cls = heap[a].cls
        /\ heap[a].cls = "Tuple" =>
               Value(heap, op.ref).subtypes
                 = Value(heap, a).subtypes \o Value(heap, RightOperand).subtypes

\* The sequence operand of a multiplication of a list or tuple and a Num, 0
\* when the operation just applied is none.
SequenceTimesNum ==
    IF op.kind # "binop" \/ op.operator # "Mult" THEN 0
    ELSE IF heap[a].cls \in {"List", "Tuple"} /\ heap[b].cls = "Num" THEN a
    ELSE IF heap[a].cls = "Num" /\ heap[b].cls \in {"List", "Tuple"} THEN b
    ELSE 0

\* C24: a list or tuple type times a Num, in either order, gives a value that
\* shares no object with the sequence operand.
C24_TimesNumClones ==
    SequenceTimesNum # 0 =>
        /\ op.exc = "none"
        /\ heap[op.ref].cls = heap[SequenceTimesNum].cls
        /\ Reach(heap, op.ref) \cap Reach(heap, SequenceTimesNum) = {}

\* C25: are_types_equal on two tuple types returns a boolean, True exactly
\* when the tuples have as many subtypes and these are pairwise equal.
C25_TupleEquality ==
    (op.kind = "equal" /\ b # 0 /\ heap[a].cls = "Tuple" /\ heap[b].cls = "Tuple") =>
        /\ op.res \in {"True", "False"}
        /\ op.res = "True" <=>
               /\ Len(heap[a].subtypes) = Len(heap[b].subtypes)
               /\ \A i \in 1..Len(heap[a].subtypes) :
                      are_types_equal(heap, heap[a].subtypes[i],
                                      heap[b].subtypes[i]) = "True"

C27_UnresolvedAttribute ==
    \A i \in 1..Len(calls) :
        ( /\ calls[i].op = "ImportFrom"
          /\ calls[i].stmt.module \in {"math", "random"}
          /\ calls[i].name \in {"append", "tan"} ) =>
            /\ calls[i].exc = "none"
            /\ calls[i].reported[IF calls[i].name = "append"
                                 THEN "Append to non-list"
                                 ELSE "Method not in Type"] = 1

\* C28: the index of a dict type built from a key type and a value type is
\* the value type, and the index of a dict type with literal keys returns.
C28_DictIndexIsValue ==
    (op.kind = "index" /\ heap[a].cls = "Dict") =>
        /\ op.exc = "none"
        /\ (heap[a].literals = <<>> /\ heap[a].values # <<>>) =>
               Value(heap, op.ref) = Value(heap, heap[a].values[1])

\* The plots of the recorded graphs, and the type check_for_plot looks for.
AllPlots == {graphs[g].data[i] : <<g, i>> \in
                 {p \in (1..Len(graphs)) \X (1..MaxPlots) :
                      p[2] <= Len(graphs[p[1]].data)}}
CheckedType == IF plot_check.type = "plot" THEN "line" ELSE plot_check.type

\* C29: check_for_plot returns False exactly when some plot of some graph has
\* the type asked for ('plot' read as 'line') and matches the data under
\* compare_data; otherwise the message is chosen by whether some plot has the
\* type and whether some plot matches the data.
C29_CheckForPlot ==
    plot_check.kind = "check" =>
        /\ plot_check.answer = <<"False">> <=>
               \E p \in AllPlots :
                   /\ p.type = CheckedType
                   /\ compare_data(CheckedType, plot_check.data, p)
        /\ plot_check.answer # <<"False">> =>
               plot_check.answer[1] =
                   IF \E p \in AllPlots : p.type = CheckedType
                   THEN IF \E p \in AllPlots :
                               compare_data(CheckedType, plot_check.data, p)
                        THEN "You have created a {}, but it does not have the right data. That data appears to have been plotted in another graph."
                        ELSE "You have created a {}, but it does not have the right data."
                   ELSE IF \E p \in AllPlots :
                               compare_data(CheckedType, plot_check.data, p)
                        THEN "You have plotted the right data, but you appear to have not plotted it as a {}."
                        ELSE "You have not created a {} with the proper data."

\* ... reached by a check for a line plot when one graph has a line plot with
\* other data and another graph a scatter plot with the data.
C29_Witness ==
    /\ plot_check.kind = "check"
    /\ plot_check.type = "plot"
    /\ Len(graphs) = 2
    /\ plot_check.answer[1] = "You have created a {}, but it does not have the right data. That data appears to have been plotted in another graph."
    /\ plot_check.answer[2] = "line plot"

====
